---- MODULE Spec2Model ----
(***************************************************************************)
(* A model of the search core of chess-engine-rs: the transposition table, *)
(* the history table, the move collector/iterator, and the iterative       *)
(* deepening negamax of search.rs run as an explicit-stack machine over a  *)
(* small abstract game (positions, legal moves, hashes, halfmove clocks)   *)
(* standing for the cozy_chess board the engine consumes.                  *)
(***************************************************************************)
EXTENDS Integers, Sequences, FiniteSets, TLC

(***************************************************************************)
(* Fixed-width integers                                                    *)
(***************************************************************************)
I16_MAX == 32767
I16_MIN == -32768
U8_MAX == 255

InI16(x) == x >= I16_MIN /\ x <= I16_MAX
\* two's complement wrap of an i16 result (the release build's behaviour)
Wrap16(x) == ((x + 32768) % 65536) - 32768
Max(a, b) == IF a >= b THEN a ELSE b
Min(a, b) == IF a <= b THEN a ELSE b
\* i16::saturating_add / saturating_sub / saturating_mul
SatSubNone(a, b) == a
SatAdd(a, b) == Max(I16_MIN, Min(I16_MAX, a + b))
SatSub(a, b) == Max(I16_MIN, Min(I16_MAX, a - b))
SatMul(a, b) == Max(I16_MIN, Min(I16_MAX, a * b))
\* Rust integer division by two truncates toward zero
Half(x) == IF x >= 0 THEN x \div 2 ELSE -((-x) \div 2)

\* Option<T>: << >> is None, <<x>> is Some(x)
NoneOpt == << >>
Some(x) == <<x>>
IsSome(o) == Len(o) > 0
Unwrap(o) == o[1]
\* Move.promotion: no promotion piece
None == "none"

(***************************************************************************)
(* Moves, pieces, squares                                                  *)
(***************************************************************************)
PAWN == 0
KNIGHT == 1
BISHOP == 2
ROOK == 3
QUEEN == 4
KING == 5
WHITE == 0
BLACK == 1

PIECE_VALUES == <<100, 250, 300, 500, 900, 10000>>
piece_value(p) == PIECE_VALUES[p + 1]

Mv(f, t, pr) == [from |-> f, to |-> t, promotion |-> pr]
NULL_MOVE == Mv(0, 0, None)

(***************************************************************************)
(* The board oracle: a small abstract game.  A board is [pos, hm]: a       *)
(* position of the game graph and its halfmove clock.  Each position has a *)
(* side to move, a Zobrist hash, a check flag, its legal moves in          *)
(* generation order and the position a null move leads to.                 *)
(***************************************************************************)
GM(f, t, pr, pc, cp, vc, d) ==
    [mv |-> Mv(f, t, pr), piece |-> pc, cap |-> cp, victim |-> vc, dest |-> d]

Positions == 1..21

Game == <<
  \* 1: white, start of the reversible four-cycle 1 -> 2 -> 3 -> 4 -> 1
  [stm |-> WHITE, hash |-> 17, check |-> FALSE, null |-> 8,
   moves |-> << GM(7, 6, None, ROOK, FALSE, PAWN, 2),
                GM(21, 36, None, KNIGHT, TRUE, PAWN, 6),
                GM(2, 20, None, BISHOP, FALSE, PAWN, 8),
                GM(1, 18, None, KNIGHT, FALSE, PAWN, 4),
                GM(4, 3, None, KING, FALSE, PAWN, 2) >>],
  \* 2: black
  [stm |-> BLACK, hash |-> 22, check |-> FALSE, null |-> 7,
   moves |-> << GM(63, 62, None, ROOK, FALSE, PAWN, 3),
                GM(57, 42, None, KNIGHT, FALSE, PAWN, 5) >>],
  \* 3: white, can mate by a capture
  [stm |-> WHITE, hash |-> 31, check |-> FALSE, null |-> 6,
   moves |-> << GM(6, 7, None, ROOK, FALSE, PAWN, 4),
                GM(3, 53, None, QUEEN, TRUE, PAWN, 9) >>],
  \* 4: black
  [stm |-> BLACK, hash |-> 44, check |-> FALSE, null |-> 1,
   moves |-> << GM(62, 63, None, ROOK, FALSE, PAWN, 1),
                GM(48, 40, None, PAWN, FALSE, PAWN, 7) >>],
  \* 5: white, in check
  [stm |-> WHITE, hash |-> 53, check |-> TRUE, null |-> 0,
   moves |-> << GM(4, 5, None, KING, FALSE, PAWN, 8),
                GM(4, 12, None, KING, TRUE, QUEEN, 6) >>],
  \* 6: black
  [stm |-> BLACK, hash |-> 62, check |-> FALSE, null |-> 1,
   moves |-> << GM(43, 36, None, PAWN, TRUE, KNIGHT, 7),
                GM(59, 12, None, QUEEN, FALSE, PAWN, 5) >>],
  \* 7: white, can promote
  [stm |-> WHITE, hash |-> 71, check |-> FALSE, null |-> 2,
   moves |-> << GM(48, 56, "queen", PAWN, FALSE, PAWN, 8),
                GM(6, 7, None, KING, FALSE, PAWN, 10) >>],
  \* 8: black
  [stm |-> BLACK, hash |-> 80, check |-> FALSE, null |-> 3,
   moves |-> << GM(59, 3, None, QUEEN, TRUE, QUEEN, 7),
                GM(60, 52, None, KING, FALSE, PAWN, 1),
                GM(57, 42, None, KNIGHT, FALSE, PAWN, 3) >>],
  \* 9: black is checkmated
  [stm |-> BLACK, hash |-> 93, check |-> TRUE, null |-> 0, moves |-> << >>],
  \* 10: black is stalemated
  [stm |-> BLACK, hash |-> 102, check |-> FALSE, null |-> 0, moves |-> << >>],
  \* 11: white mates in three: 11 -> 12 -> 13 -> 14 -> 15 -> 9
  [stm |-> WHITE, hash |-> 112, check |-> FALSE, null |-> 16,
   moves |-> << GM(9, 17, None, PAWN, FALSE, PAWN, 12),
                GM(3, 11, None, QUEEN, FALSE, PAWN, 16) >>],
  \* 12: black, in check; its first reply walks into the mate in one of 15
  [stm |-> BLACK, hash |-> 121, check |-> TRUE, null |-> 0,
   moves |-> << GM(60, 59, None, KING, FALSE, PAWN, 15),
                GM(60, 61, None, KING, FALSE, PAWN, 13) >>],
  \* 13: white mates in two
  [stm |-> WHITE, hash |-> 130, check |-> FALSE, null |-> 16,
   moves |-> << GM(17, 25, None, PAWN, FALSE, PAWN, 14) >>],
  \* 14: black, in check with a single reply
  [stm |-> BLACK, hash |-> 139, check |-> TRUE, null |-> 0,
   moves |-> << GM(61, 60, None, KING, FALSE, PAWN, 15) >>],
  \* 15: white mates in one
  [stm |-> WHITE, hash |-> 148, check |-> FALSE, null |-> 16,
   moves |-> << GM(3, 59, None, QUEEN, FALSE, PAWN, 9),
                GM(3, 12, None, QUEEN, FALSE, PAWN, 10) >>],
  \* 16: black, one move into stalemate; its hash shares the table slot of 12
  [stm |-> BLACK, hash |-> 129, check |-> FALSE, null |-> 17,
   moves |-> << GM(52, 44, None, PAWN, FALSE, PAWN, 17) >>],
  \* 17: white is stalemated
  [stm |-> WHITE, hash |-> 138, check |-> FALSE, null |-> 0, moves |-> << >>],
  \* 18: white may castle on either side (king e1, rooks a1 and h1); castling
  \* is the king's move onto its own rook
  [stm |-> WHITE, hash |-> 147, check |-> FALSE, null |-> 16,
   moves |-> << GM(4, 7, None, KING, FALSE, PAWN, 9),
                GM(4, 0, None, KING, FALSE, PAWN, 10),
                GM(4, 5, None, KING, FALSE, PAWN, 16),
                GM(7, 6, None, ROOK, FALSE, PAWN, 12),
                GM(0, 1, None, ROOK, FALSE, PAWN, 14) >>],
  \* 19: black may castle on either side (king e8, rooks a8 and h8)
  [stm |-> BLACK, hash |-> 156, check |-> FALSE, null |-> 17,
   moves |-> << GM(60, 63, None, KING, FALSE, PAWN, 17),
                GM(60, 56, None, KING, FALSE, PAWN, 3),
                GM(60, 61, None, KING, FALSE, PAWN, 13),
                GM(63, 62, None, ROOK, FALSE, PAWN, 15),
                GM(56, 57, None, ROOK, FALSE, PAWN, 11) >>],
  \* 20: white has two captures
  [stm |-> WHITE, hash |-> 165, check |-> FALSE, null |-> 16,
   moves |-> << GM(21, 36, None, KNIGHT, TRUE, PAWN, 6),
                GM(3, 53, None, QUEEN, TRUE, PAWN, 2) >>],
  \* 21: black reaches 20 by two different moves
  [stm |-> BLACK, hash |-> 174, check |-> FALSE, null |-> 1,
   moves |-> << GM(60, 61, None, KING, FALSE, PAWN, 20),
                GM(63, 62, None, ROOK, FALSE, PAWN, 1),
                GM(57, 42, None, KNIGHT, FALSE, PAWN, 20) >>]
>>

\* static evaluations (side to move's view), one function per profile
EvalProfiles == <<
  <<30, -40, 60, -10, -250, 150, 320, -120, 0, 0, 40, -60, 50, -50, 70, -20, 0, 15, -15,
    20, 0>>,
  <<0, 0, 0, 0, -700, -300, 500, 400, 0, 0, 0, 0, 0, 0, 0, 0, 0, 0, 0, -100, 0>>,
  <<-200, 260, 90, -90, 10, -650, 100, -500, 0, 0, -300, 280, -310, 330, -150, 120, 0, 35, -35,
    -50, 0>>
>>

Bd(p, h) == [pos |-> p, hm |-> h]
\* cozy_chess caps the halfmove clock at 100
HM_LIMIT == 100

hash(b) == Game[b.pos].hash
side_to_move(b) == Game[b.pos].stm
checkers_is_empty(b) == ~Game[b.pos].check
legal_moves(b) == Game[b.pos].moves
\* a capture, or a pawn move, resets the halfmove clock
Irreversible(m) == m.cap \/ m.piece = PAWN
play(b, m) == Bd(m.dest, IF Irreversible(m) THEN 0 ELSE Min(b.hm + 1, HM_LIMIT))
\* None when the side to move is in check
null_move(b) ==
    IF Game[b.pos].check THEN NoneOpt
    ELSE Some(Bd(Game[b.pos].null, Min(b.hm + 1, HM_LIMIT)))
\* GameStatus: Won means the side to move is checkmated
status(b) ==
    IF Len(Game[b.pos].moves) > 0
    THEN (IF b.hm < HM_LIMIT THEN "Ongoing" ELSE "Drawn")
    ELSE (IF Game[b.pos].check THEN "Won" ELSE "Drawn")
evaluate(prof, b) == EvalProfiles[prof][b.pos]

\* history_index: (color * 6 + piece) * 64 + to
history_index(b, m) == (side_to_move(b) * 6 + m.piece) * 64 + m.mv.to

AllGameMoves == UNION {{Game[p].moves[k] : k \in 1..Len(Game[p].moves)} : p \in Positions}
\* the history slots any move of the game can touch
HIdx == UNION {{(Game[p].stm * 6 + Game[p].moves[k].piece) * 64 + Game[p].moves[k].mv.to :
                 k \in 1..Len(Game[p].moves)} : p \in Positions}

(***************************************************************************)
(* State                                                                   *)
(***************************************************************************)
VARIABLES
    tt,         \* TranspositionTable.buffer: slot index -> Option<TTEntry>
    ttGot,      \* the last TranspositionTable::get call: its key and result
    ttSet,      \* the last call of the table, when it was a set
    history,    \* HistoryTable.table on the slots of HIdx
    histPanic,  \* an overflowing i16 operation panicked (debug build)
    histOvf,    \* some i16 operation of the history table overflowed
    histOps,    \* history operations performed so far
    col,        \* ComprehensiveMoveCollector
    iter,       \* ComprehensiveMoveIterator cursors
    ordIn,      \* the inputs the collector was built from
    yielded,    \* what the iterator has returned so far
    ordPc,      \* "idle", "iterating", "exhausted"
    conv,       \* a move on a board and the translations applied to it (utils.rs)
    rep,        \* a board_history vector and the repetition test applied to it
    \* -- Searcher (search.rs) --
    board_history, \* Vec<u64> of Zobrist hashes
    stop_search,
    killers,       \* remaining depth -> Option<Move>, on the slots written
    best_move,     \* Searcher.best_move
    ply,
    \* -- one call of Searcher::search --
    phase,         \* "idle", "run", "done"
    prof,          \* which evaluation the positions have
    board,         \* the root board, after the prior moves were replayed
    max_depth,
    nodes_visited, \* SearchStats.nodes_visited
    stats_depth,   \* SearchStats.depth
    timeUp,        \* TimeControl::time_up() has returned true
    depth_i,       \* the loop variable i of the iterative deepening
    id_best_move,  \* the locals best_move, best_value of search()
    id_best_value,
    window_size,   \* the locals of the aspiration loop
    asp_alpha,
    asp_beta,
    stack,         \* the activation records of search_internal
    ret,           \* the value the last search_internal call returned
    log,           \* observations of the run the properties are stated on
    walk           \* the depths and the ply of the active search_internal calls

ttVars == <<tt, ttGot, ttSet>>
histVars == <<history, histPanic, histOvf, histOps>>
ordVars == <<col, iter, ordIn, yielded, ordPc>>
selfVars == <<board_history, stop_search, killers, best_move, ply>>
idVars == <<phase, prof, board, max_depth, stats_depth, depth_i, id_best_move,
            id_best_value, window_size, asp_alpha, asp_beta>>
runVars == <<nodes_visited, timeUp, stack, ret, log>>
searchVars == <<selfVars, idVars, runVars>>
vars == <<ttVars, histVars, ordVars, searchVars, conv, rep, walk>>

(***************************************************************************)
(* transposition_table.rs                                                  *)
(***************************************************************************)
\* size_of::<Option<TTEntry>>()
TT_ENTRY_SIZE == 16
MaxTTSlots == 3
MaxHash == 3

NodeTypes == {"Exact", "UpperBound", "LowerBound"}
TTEntry(h, bm, bv, d, nt) ==
    [hash |-> h, best_move |-> bm, best_value |-> bv, depth |-> d, node_type |-> nt]

bytes_to_entries(bytes) == bytes \div TT_ENTRY_SIZE
tt_new(bytes) == [i \in 0..(bytes_to_entries(bytes) - 1) |-> NoneOpt]
tt_len(t) == Cardinality(DOMAIN t)
\* a get that forgets to compare the stored hash
tt_get_unfiltered(t, h) == t[h % tt_len(t)]
tt_get(t, h) ==
    LET idx == h % tt_len(t)
    IN  IF IsSome(t[idx]) /\ Unwrap(t[idx]).hash = h THEN t[idx] ELSE NoneOpt
\* a set that keeps the entry already in the slot when that one is deeper
tt_set_depth_preferred(t, h, value) ==
    LET idx == h % tt_len(t)
    IN  IF IsSome(t[idx]) /\ Unwrap(t[idx]).depth > value.depth THEN t
        ELSE [t EXCEPT ![idx] = Some(value)]
tt_set(t, h, value) == [t EXCEPT ![h % tt_len(t)] = Some(value)]
tt_clear(t) == [i \in DOMAIN t |-> NoneOpt]

NoGet == [valid |-> FALSE, hash |-> 0, res |-> NoneOpt]
TTHashes == 0..MaxHash
TTBytes == {TT_ENTRY_SIZE * k + r : k \in 1..MaxTTSlots, r \in {0, 7}}
\* a shallow exact entry and a deep lower bound for every hash
TTEntries == {TTEntry(h, NULL_MOVE, -5, 1, "Exact") : h \in TTHashes}
             \cup {TTEntry(h, NULL_MOVE, 40, 4, "LowerBound") : h \in TTHashes}
\* old is what the slot held before the set
NoSet == [valid |-> FALSE, hash |-> 0, value |-> TTEntry(0, NULL_MOVE, 0, 0, "Exact"),
          old |-> NoneOpt]

TTIdle == tt = tt_new(TT_ENTRY_SIZE) /\ ttGot = NoGet /\ ttSet = NoSet
TTInit == ttGot = NoGet /\ ttSet = NoSet /\ \E bytes \in TTBytes : tt = tt_new(bytes)

TTNew == /\ \E bytes \in TTBytes : tt' = tt_new(bytes) /\ ttGot' = NoGet
         /\ ttSet' = NoSet
         /\ UNCHANGED <<histVars, ordVars, searchVars, conv, rep, walk>>
TTSet == /\ \E h \in TTHashes, e \in TTEntries :
              /\ tt' = tt_set(tt, h, e)
              /\ ttSet' = [valid |-> TRUE, hash |-> h, value |-> e,
                           old |-> tt[h % tt_len(tt)]]
         /\ ttGot' = NoGet
         /\ UNCHANGED <<histVars, ordVars, searchVars, conv, rep, walk>>
TTGet == /\ \E h \in TTHashes :
              /\ ttGot' = [valid |-> TRUE, hash |-> h, res |-> tt_get(tt, h)]
              /\ tt' = tt
         /\ ttSet' = NoSet
         /\ UNCHANGED <<histVars, ordVars, searchVars, conv, rep, walk>>
TTClear == /\ tt' = tt_clear(tt) /\ ttGot' = NoGet /\ ttSet' = NoSet
           /\ UNCHANGED <<histVars, ordVars, searchVars, conv, rep, walk>>

(***************************************************************************)
(* history.rs                                                              *)
(***************************************************************************)
HISTORY_LIMIT == I16_MAX \div 2
MaxHistOps == 3
\* depths the search can hand to update: Depth is u8 and search_for_time
\* iterates up to Depth::MAX
HistDepths == {1, 2, 90, 127, 128, 180, 181, U8_MAX}

\* the slots the history operations are exercised on
HistSlots == {i \in HIdx : (\A j \in HIdx : i <= j) \/ (\A j \in HIdx : j <= i)}

history_new == [i \in HIdx |-> 0]
history_delta(depth) == Wrap16(Wrap16(depth * depth) + depth)
history_delta_overflows(depth) ==
    ~InI16(depth * depth) \/ ~InI16(Wrap16(depth * depth) + depth)
hist_normalize(t) == [i \in DOMAIN t |-> Half(t[i])]
hist_clear(t) == [i \in DOMAIN t |-> 0]
hist_update_overflows(t, idx, depth) ==
    history_delta_overflows(depth) \/ ~InI16(t[idx] + history_delta(depth))
hist_update(t, idx, depth) ==
    LET entry == Wrap16(t[idx] + history_delta(depth))
        t1 == [t EXCEPT ![idx] = entry]
    IN  IF entry >= HISTORY_LIMIT THEN hist_normalize(t1) ELSE t1

HistIdle == history = history_new /\ histPanic = FALSE /\ histOvf = FALSE /\ histOps = 0
HistInit == HistIdle

HistUpdate ==
    /\ ~histPanic /\ histOps < MaxHistOps
    /\ \E idx \in HistSlots, depth \in HistDepths :
         IF hist_update_overflows(history, idx, depth)
         THEN /\ histOvf' = TRUE
              \* the debug build panics, the release build wraps
              /\ \E panics \in BOOLEAN :
                    /\ histPanic' = panics
                    /\ history' = IF panics THEN history
                                  ELSE hist_update(history, idx, depth)
         ELSE /\ history' = hist_update(history, idx, depth)
              /\ UNCHANGED <<histPanic, histOvf>>
    /\ histOps' = histOps + 1
    /\ UNCHANGED <<ttVars, ordVars, searchVars, conv, rep, walk>>
HistNormalize ==
    /\ ~histPanic /\ histOps < MaxHistOps
    /\ history' = hist_normalize(history)
    /\ histOps' = histOps + 1
    /\ UNCHANGED <<histPanic, histOvf, ttVars, ordVars, searchVars, conv, rep, walk>>
HistClear ==
    /\ ~histPanic /\ histOps < MaxHistOps
    /\ history' = hist_clear(history)
    /\ histOps' = histOps + 1
    /\ UNCHANGED <<histPanic, histOvf, ttVars, ordVars, searchVars, conv, rep, walk>>

(***************************************************************************)
(* move_ordering.rs: ComprehensiveMoveCollector / ComprehensiveMoveIterator*)
(***************************************************************************)
\* usize::MAX, the killer's rank (any value above every history score)
USIZE_MAX == 2147483647

Swap(s, i, j) == [s EXCEPT ![i] = s[j], ![j] = s[i]]
\* Ord on tuples: lexicographic
LexGt(a, b) == \E k \in 1..Len(a) : a[k] > b[k] /\ \A j \in 1..(k - 1) : a[j] = b[j]
ME(m, e) == [mv |-> m, ev |-> e]

RECURSIVE SelLoop(_, _, _)
\* the while loop; cur and i are the code's 0-based indices
SelLoop(move_evals, cur, i) ==
    IF i >= Len(move_evals) THEN move_evals
    ELSE SelLoop(IF LexGt(move_evals[i + 1].ev, move_evals[cur + 1].ev)
                 THEN Swap(Swap(move_evals, i + 1, cur + 1), i + 1, cur + 1)
                 ELSE move_evals,
                 cur, i + 1)
move_eval_selection_sort_iter(move_evals, cur) ==
    LET e == SelLoop(move_evals, cur, cur + 1)
    IN  [evals |-> e, mv |-> e[cur + 1].mv]

is_legal(b, mv) == \E k \in 1..Len(legal_moves(b)) : legal_moves(b)[k].mv = mv
\* enemy.has(mv.to) for a legal move: the move is a capture
enemy_has(b, mv) ==
    \E k \in 1..Len(legal_moves(b)) : legal_moves(b)[k].mv = mv /\ legal_moves(b)[k].cap

EmptyCol == [ttmove |-> NoneOpt, ttmove_capture |-> FALSE,
             poscaptures |-> << >>, negcaptures |-> << >>, noncaptures |-> << >>]
\* the body of the generate_moves callback for one move
CollectOne(c, b, m, killer, hist) ==
    IF m.cap
    THEN LET tgt_eval == piece_value(m.victim)
             src_eval == piece_value(m.piece)
         IN  IF tgt_eval >= src_eval
             THEN [c EXCEPT !.poscaptures = Append(@, ME(m.mv, <<tgt_eval, src_eval>>))]
             ELSE [c EXCEPT !.negcaptures = Append(@, ME(m.mv, <<tgt_eval, src_eval>>))]
    ELSE IF m.mv = killer
    THEN LET pushed == Append(c.noncaptures, ME(m.mv, <<USIZE_MAX>>))
         IN  [c EXCEPT !.noncaptures = Swap(pushed, Len(pushed), 1)]
    ELSE [c EXCEPT !.noncaptures = Append(@, ME(m.mv, <<hist[history_index(b, m)]>>))]

RECURSIVE CollectFrom(_, _, _, _, _)
CollectFrom(c, b, k, killer, hist) ==
    IF k > Len(legal_moves(b)) THEN c
    ELSE CollectFrom(CollectOne(c, b, legal_moves(b)[k], killer, hist), b, k + 1, killer, hist)

ComprehensiveMoveCollector_new(b, killer, hist, ttmove) ==
    [CollectFrom(EmptyCol, b, 1, killer, hist) EXCEPT
        !.ttmove = ttmove,
        !.ttmove_capture = IF IsSome(ttmove)
                           THEN is_legal(b, Unwrap(ttmove)) /\ enemy_has(b, Unwrap(ttmove))
                           ELSE FALSE]
into_iter(c) == [done_ttmove |-> ~IsSome(c.ttmove),
                 poscapture_cur |-> 0, negcapture_cur |-> 0, noncapture_cur |-> 0]

\* ComprehensiveMoveIterator::next: [col, iter, out] with out an Option<(bool, Move)>
ComprehensiveMoveIterator_next(c, it) ==
    IF ~it.done_ttmove
    THEN [col |-> c, iter |-> [it EXCEPT !.done_ttmove = TRUE],
          out |-> Some([cap |-> c.ttmove_capture, mv |-> Unwrap(c.ttmove)])]
    ELSE IF it.poscapture_cur < Len(c.poscaptures)
    THEN LET r == move_eval_selection_sort_iter(c.poscaptures, it.poscapture_cur)
         IN  [col |-> [c EXCEPT !.poscaptures = r.evals],
              iter |-> [it EXCEPT !.poscapture_cur = @ + 1],
              out |-> Some([cap |-> TRUE, mv |-> r.mv])]
    ELSE IF it.noncapture_cur < Len(c.noncaptures)
    THEN LET r == move_eval_selection_sort_iter(c.noncaptures, it.noncapture_cur)
         IN  [col |-> [c EXCEPT !.noncaptures = r.evals],
              iter |-> [it EXCEPT !.noncapture_cur = @ + 1],
              out |-> Some([cap |-> FALSE, mv |-> r.mv])]
    ELSE IF it.negcapture_cur < Len(c.negcaptures)
    THEN LET r == move_eval_selection_sort_iter(c.negcaptures, it.negcapture_cur)
         IN  [col |-> [c EXCEPT !.negcaptures = r.evals],
              iter |-> [it EXCEPT !.negcapture_cur = @ + 1],
              out |-> Some([cap |-> TRUE, mv |-> r.mv])]
    ELSE [col |-> c, iter |-> it, out |-> NoneOpt]

\* inputs of the collector
OrdHistories == {[i \in HIdx |-> 0], [i \in HIdx |-> i % 7]}
OrdMoves(b) == {legal_moves(b)[k].mv : k \in 1..Len(legal_moves(b))} \cup {NULL_MOVE}
NoOrdIn == [board |-> Bd(1, 0), killer |-> NULL_MOVE, ttmove |-> NoneOpt,
            history |-> [i \in HIdx |-> 0]]

OrdIdle == /\ col = EmptyCol /\ iter = into_iter(EmptyCol) /\ ordIn = NoOrdIn
           /\ yielded = << >> /\ ordPc = "idle"
OrdInit == OrdIdle

OrdNew ==
    /\ ordPc = "idle"
    /\ \E p \in Positions, hist \in OrdHistories :
       \E killer \in OrdMoves(Bd(p, 0)) :
       \E ttmove \in {NoneOpt} \cup {Some(m) : m \in OrdMoves(Bd(p, 0))} :
         LET c == ComprehensiveMoveCollector_new(Bd(p, 0), killer, hist, ttmove)
         IN  /\ col' = c
             /\ iter' = into_iter(c)
             /\ ordIn' = [board |-> Bd(p, 0), killer |-> killer, ttmove |-> ttmove,
                          history |-> hist]
    /\ yielded' = << >>
    /\ ordPc' = "iterating"
    /\ UNCHANGED <<ttVars, histVars, searchVars, conv, rep, walk>>
OrdNext ==
    /\ ordPc = "iterating"
    /\ LET r == ComprehensiveMoveIterator_next(col, iter)
       IN  /\ col' = r.col
           /\ iter' = r.iter
           /\ yielded' = IF IsSome(r.out) THEN Append(yielded, Unwrap(r.out)) ELSE yielded
           /\ ordPc' = IF IsSome(r.out) THEN "iterating" ELSE "exhausted"
    /\ UNCHANGED <<ordIn, ttVars, histVars, searchVars, conv, rep, walk>>

(***************************************************************************)
(* lmr_table.rs: table[move_num][depth] =                                  *)
(*   (0.75 + ln(max(depth,1)) * ln(max(move_num,1)) / 2.25) as u8          *)
(***************************************************************************)
LMR_TABLE == <<
  <<0,0,0,0,0,0,0,0,0,0,0,0,0,0,0,0,0,0,0,0,0,0,0,0,0,0,0,0,0,0,0,0,0,0,0,0,0,0,0,0,0,0,0,0,0,0,0,0,0,0,0,0,0,0,0,0,0,0,0,0,0,0,0,0>>,
  <<0,0,0,0,0,0,0,0,0,0,0,0,0,0,0,0,0,0,0,0,0,0,0,0,0,0,0,0,0,0,0,0,0,0,0,0,0,0,0,0,0,0,0,0,0,0,0,0,0,0,0,0,0,0,0,0,0,0,0,0,0,0,0,0>>,
  <<0,0,0,1,1,1,1,1,1,1,1,1,1,1,1,1,1,1,1,1,1,1,1,1,1,1,1,1,1,1,1,1,1,1,1,1,1,1,1,1,1,1,1,1,1,1,1,1,1,1,1,1,1,1,1,1,1,1,2,2,2,2,2,2>>,
  <<0,0,1,1,1,1,1,1,1,1,1,1,1,2,2,2,2,2,2,2,2,2,2,2,2,2,2,2,2,2,2,2,2,2,2,2,2,2,2,2,2,2,2,2,2,2,2,2,2,2,2,2,2,2,2,2,2,2,2,2,2,2,2,2>>,
  <<0,0,1,1,1,1,1,1,2,2,2,2,2,2,2,2,2,2,2,2,2,2,2,2,2,2,2,2,2,2,2,2,2,2,2,2,2,2,2,3,3,3,3,3,3,3,3,3,3,3,3,3,3,3,3,3,3,3,3,3,3,3,3,3>>,
  <<0,0,1,1,1,1,2,2,2,2,2,2,2,2,2,2,2,2,2,2,2,2,2,2,3,3,3,3,3,3,3,3,3,3,3,3,3,3,3,3,3,3,3,3,3,3,3,3,3,3,3,3,3,3,3,3,3,3,3,3,3,3,3,3>>,
  <<0,0,1,1,1,2,2,2,2,2,2,2,2,2,2,2,2,3,3,3,3,3,3,3,3,3,3,3,3,3,3,3,3,3,3,3,3,3,3,3,3,3,3,3,3,3,3,3,3,3,3,3,3,3,3,3,3,3,3,3,4,4,4,4>>,
  <<0,0,1,1,1,2,2,2,2,2,2,2,2,2,3,3,3,3,3,3,3,3,3,3,3,3,3,3,3,3,3,3,3,3,3,3,3,3,3,3,3,3,3,4,4,4,4,4,4,4,4,4,4,4,4,4,4,4,4,4,4,4,4,4>>,
  <<0,0,1,1,2,2,2,2,2,2,2,2,3,3,3,3,3,3,3,3,3,3,3,3,3,3,3,3,3,3,3,3,3,3,4,4,4,4,4,4,4,4,4,4,4,4,4,4,4,4,4,4,4,4,4,4,4,4,4,4,4,4,4,4>>,
  <<0,0,1,1,2,2,2,2,2,2,2,3,3,3,3,3,3,3,3,3,3,3,3,3,3,3,3,3,4,4,4,4,4,4,4,4,4,4,4,4,4,4,4,4,4,4,4,4,4,4,4,4,4,4,4,4,4,4,4,4,4,4,4,4>>,
  <<0,0,1,1,2,2,2,2,2,2,3,3,3,3,3,3,3,3,3,3,3,3,3,3,4,4,4,4,4,4,4,4,4,4,4,4,4,4,4,4,4,4,4,4,4,4,4,4,4,4,4,4,4,4,4,4,4,4,4,4,4,4,4,4>>,
  <<0,0,1,1,2,2,2,2,2,3,3,3,3,3,3,3,3,3,3,3,3,3,4,4,4,4,4,4,4,4,4,4,4,4,4,4,4,4,4,4,4,4,4,4,4,4,4,4,4,4,4,4,4,4,5,5,5,5,5,5,5,5,5,5>>,
  <<0,0,1,1,2,2,2,2,3,3,3,3,3,3,3,3,3,3,3,4,4,4,4,4,4,4,4,4,4,4,4,4,4,4,4,4,4,4,4,4,4,4,4,4,4,4,4,5,5,5,5,5,5,5,5,5,5,5,5,5,5,5,5,5>>,
  <<0,0,1,2,2,2,2,2,3,3,3,3,3,3,3,3,3,3,4,4,4,4,4,4,4,4,4,4,4,4,4,4,4,4,4,4,4,4,4,4,4,4,5,5,5,5,5,5,5,5,5,5,5,5,5,5,5,5,5,5,5,5,5,5>>,
  <<0,0,1,2,2,2,2,3,3,3,3,3,3,3,3,3,4,4,4,4,4,4,4,4,4,4,4,4,4,4,4,4,4,4,4,4,4,4,5,5,5,5,5,5,5,5,5,5,5,5,5,5,5,5,5,5,5,5,5,5,5,5,5,5>>,
  <<0,0,1,2,2,2,2,3,3,3,3,3,3,3,3,4,4,4,4,4,4,4,4,4,4,4,4,4,4,4,4,4,4,4,4,5,5,5,5,5,5,5,5,5,5,5,5,5,5,5,5,5,5,5,5,5,5,5,5,5,5,5,5,5>>,
  <<0,0,1,2,2,2,2,3,3,3,3,3,3,3,4,4,4,4,4,4,4,4,4,4,4,4,4,4,4,4,4,4,5,5,5,5,5,5,5,5,5,5,5,5,5,5,5,5,5,5,5,5,5,5,5,5,5,5,5,5,5,5,5,5>>,
  <<0,0,1,2,2,2,3,3,3,3,3,3,3,3,4,4,4,4,4,4,4,4,4,4,4,4,4,4,4,4,5,5,5,5,5,5,5,5,5,5,5,5,5,5,5,5,5,5,5,5,5,5,5,5,5,5,5,5,5,5,5,5,5,5>>,
  <<0,0,1,2,2,2,3,3,3,3,3,3,3,4,4,4,4,4,4,4,4,4,4,4,4,4,4,4,5,5,5,5,5,5,5,5,5,5,5,5,5,5,5,5,5,5,5,5,5,5,5,5,5,5,5,5,5,5,5,5,6,6,6,6>>,
  <<0,0,1,2,2,2,3,3,3,3,3,3,4,4,4,4,4,4,4,4,4,4,4,4,4,4,5,5,5,5,5,5,5,5,5,5,5,5,5,5,5,5,5,5,5,5,5,5,5,5,5,5,5,5,5,5,6,6,6,6,6,6,6,6>>,
  <<0,0,1,2,2,2,3,3,3,3,3,3,4,4,4,4,4,4,4,4,4,4,4,4,4,5,5,5,5,5,5,5,5,5,5,5,5,5,5,5,5,5,5,5,5,5,5,5,5,5,5,5,6,6,6,6,6,6,6,6,6,6,6,6>>,
  <<0,0,1,2,2,2,3,3,3,3,3,3,4,4,4,4,4,4,4,4,4,4,4,4,5,5,5,5,5,5,5,5,5,5,5,5,5,5,5,5,5,5,5,5,5,5,5,5,5,6,6,6,6,6,6,6,6,6,6,6,6,6,6,6>>,
  <<0,0,1,2,2,2,3,3,3,3,3,4,4,4,4,4,4,4,4,4,4,4,4,5,5,5,5,5,5,5,5,5,5,5,5,5,5,5,5,5,5,5,5,5,5,5,6,6,6,6,6,6,6,6,6,6,6,6,6,6,6,6,6,6>>,
  <<0,0,1,2,2,2,3,3,3,3,3,4,4,4,4,4,4,4,4,4,4,4,5,5,5,5,5,5,5,5,5,5,5,5,5,5,5,5,5,5,5,5,5,5,6,6,6,6,6,6,6,6,6,6,6,6,6,6,6,6,6,6,6,6>>,
  <<0,0,1,2,2,3,3,3,3,3,4,4,4,4,4,4,4,4,4,4,4,5,5,5,5,5,5,5,5,5,5,5,5,5,5,5,5,5,5,5,5,5,6,6,6,6,6,6,6,6,6,6,6,6,6,6,6,6,6,6,6,6,6,6>>,
  <<0,0,1,2,2,3,3,3,3,3,4,4,4,4,4,4,4,4,4,4,5,5,5,5,5,5,5,5,5,5,5,5,5,5,5,5,5,5,5,5,6,6,6,6,6,6,6,6,6,6,6,6,6,6,6,6,6,6,6,6,6,6,6,6>>,
  <<0,0,1,2,2,3,3,3,3,3,4,4,4,4,4,4,4,4,4,5,5,5,5,5,5,5,5,5,5,5,5,5,5,5,5,5,5,5,6,6,6,6,6,6,6,6,6,6,6,6,6,6,6,6,6,6,6,6,6,6,6,6,6,6>>,
  <<0,0,1,2,2,3,3,3,3,3,4,4,4,4,4,4,4,4,4,5,5,5,5,5,5,5,5,5,5,5,5,5,5,5,5,5,5,6,6,6,6,6,6,6,6,6,6,6,6,6,6,6,6,6,6,6,6,6,6,6,6,6,6,6>>,
  <<0,0,1,2,2,3,3,3,3,4,4,4,4,4,4,4,4,4,5,5,5,5,5,5,5,5,5,5,5,5,5,5,5,5,5,6,6,6,6,6,6,6,6,6,6,6,6,6,6,6,6,6,6,6,6,6,6,6,6,6,6,6,6,6>>,
  <<0,0,1,2,2,3,3,3,3,4,4,4,4,4,4,4,4,4,5,5,5,5,5,5,5,5,5,5,5,5,5,5,5,5,6,6,6,6,6,6,6,6,6,6,6,6,6,6,6,6,6,6,6,6,6,6,6,6,6,6,6,6,6,6>>,
  <<0,0,1,2,2,3,3,3,3,4,4,4,4,4,4,4,4,5,5,5,5,5,5,5,5,5,5,5,5,5,5,5,5,6,6,6,6,6,6,6,6,6,6,6,6,6,6,6,6,6,6,6,6,6,6,6,6,6,6,6,6,6,6,7>>,
  <<0,0,1,2,2,3,3,3,3,4,4,4,4,4,4,4,4,5,5,5,5,5,5,5,5,5,5,5,5,5,5,5,6,6,6,6,6,6,6,6,6,6,6,6,6,6,6,6,6,6,6,6,6,6,6,6,6,6,6,6,6,7,7,7>>,
  <<0,0,1,2,2,3,3,3,3,4,4,4,4,4,4,4,5,5,5,5,5,5,5,5,5,5,5,5,5,5,5,6,6,6,6,6,6,6,6,6,6,6,6,6,6,6,6,6,6,6,6,6,6,6,6,6,6,6,7,7,7,7,7,7>>,
  <<0,0,1,2,2,3,3,3,3,4,4,4,4,4,4,4,5,5,5,5,5,5,5,5,5,5,5,5,5,5,6,6,6,6,6,6,6,6,6,6,6,6,6,6,6,6,6,6,6,6,6,6,6,6,6,6,7,7,7,7,7,7,7,7>>,
  <<0,0,1,2,2,3,3,3,4,4,4,4,4,4,4,4,5,5,5,5,5,5,5,5,5,5,5,5,5,6,6,6,6,6,6,6,6,6,6,6,6,6,6,6,6,6,6,6,6,6,6,6,6,6,7,7,7,7,7,7,7,7,7,7>>,
  <<0,0,1,2,2,3,3,3,4,4,4,4,4,4,4,5,5,5,5,5,5,5,5,5,5,5,5,5,6,6,6,6,6,6,6,6,6,6,6,6,6,6,6,6,6,6,6,6,6,6,6,6,6,7,7,7,7,7,7,7,7,7,7,7>>,
  <<0,0,1,2,2,3,3,3,4,4,4,4,4,4,4,5,5,5,5,5,5,5,5,5,5,5,5,5,6,6,6,6,6,6,6,6,6,6,6,6,6,6,6,6,6,6,6,6,6,6,6,7,7,7,7,7,7,7,7,7,7,7,7,7>>,
  <<0,0,1,2,2,3,3,3,4,4,4,4,4,4,4,5,5,5,5,5,5,5,5,5,5,5,5,6,6,6,6,6,6,6,6,6,6,6,6,6,6,6,6,6,6,6,6,6,6,6,7,7,7,7,7,7,7,7,7,7,7,7,7,7>>,
  <<0,0,1,2,2,3,3,3,4,4,4,4,4,4,5,5,5,5,5,5,5,5,5,5,5,5,6,6,6,6,6,6,6,6,6,6,6,6,6,6,6,6,6,6,6,6,6,6,7,7,7,7,7,7,7,7,7,7,7,7,7,7,7,7>>,
  <<0,0,1,2,3,3,3,3,4,4,4,4,4,4,5,5,5,5,5,5,5,5,5,5,5,5,6,6,6,6,6,6,6,6,6,6,6,6,6,6,6,6,6,6,6,6,6,7,7,7,7,7,7,7,7,7,7,7,7,7,7,7,7,7>>,
  <<0,0,1,2,3,3,3,3,4,4,4,4,4,4,5,5,5,5,5,5,5,5,5,5,5,6,6,6,6,6,6,6,6,6,6,6,6,6,6,6,6,6,6,6,6,6,7,7,7,7,7,7,7,7,7,7,7,7,7,7,7,7,7,7>>,
  <<0,0,1,2,3,3,3,3,4,4,4,4,4,4,5,5,5,5,5,5,5,5,5,5,5,6,6,6,6,6,6,6,6,6,6,6,6,6,6,6,6,6,6,6,6,7,7,7,7,7,7,7,7,7,7,7,7,7,7,7,7,7,7,7>>,
  <<0,0,1,2,3,3,3,3,4,4,4,4,4,5,5,5,5,5,5,5,5,5,5,5,6,6,6,6,6,6,6,6,6,6,6,6,6,6,6,6,6,6,6,6,7,7,7,7,7,7,7,7,7,7,7,7,7,7,7,7,7,7,7,7>>,
  <<0,0,1,2,3,3,3,4,4,4,4,4,4,5,5,5,5,5,5,5,5,5,5,5,6,6,6,6,6,6,6,6,6,6,6,6,6,6,6,6,6,6,6,7,7,7,7,7,7,7,7,7,7,7,7,7,7,7,7,7,7,7,7,7>>,
  <<0,0,1,2,3,3,3,4,4,4,4,4,4,5,5,5,5,5,5,5,5,5,5,6,6,6,6,6,6,6,6,6,6,6,6,6,6,6,6,6,6,6,7,7,7,7,7,7,7,7,7,7,7,7,7,7,7,7,7,7,7,7,7,7>>,
  <<0,0,1,2,3,3,3,4,4,4,4,4,4,5,5,5,5,5,5,5,5,5,5,6,6,6,6,6,6,6,6,6,6,6,6,6,6,6,6,6,6,7,7,7,7,7,7,7,7,7,7,7,7,7,7,7,7,7,7,7,7,7,7,7>>,
  <<0,0,1,2,3,3,3,4,4,4,4,4,4,5,5,5,5,5,5,5,5,5,6,6,6,6,6,6,6,6,6,6,6,6,6,6,6,6,6,6,7,7,7,7,7,7,7,7,7,7,7,7,7,7,7,7,7,7,7,7,7,7,7,7>>,
  <<0,0,1,2,3,3,3,4,4,4,4,4,5,5,5,5,5,5,5,5,5,5,6,6,6,6,6,6,6,6,6,6,6,6,6,6,6,6,6,7,7,7,7,7,7,7,7,7,7,7,7,7,7,7,7,7,7,7,7,7,7,7,7,7>>,
  <<0,0,1,2,3,3,3,4,4,4,4,4,5,5,5,5,5,5,5,5,5,5,6,6,6,6,6,6,6,6,6,6,6,6,6,6,6,6,7,7,7,7,7,7,7,7,7,7,7,7,7,7,7,7,7,7,7,7,7,7,7,7,7,7>>,
  <<0,0,1,2,3,3,3,4,4,4,4,4,5,5,5,5,5,5,5,5,5,6,6,6,6,6,6,6,6,6,6,6,6,6,6,6,6,6,7,7,7,7,7,7,7,7,7,7,7,7,7,7,7,7,7,7,7,7,7,7,7,7,7,7>>,
  <<0,0,1,2,3,3,3,4,4,4,4,4,5,5,5,5,5,5,5,5,5,6,6,6,6,6,6,6,6,6,6,6,6,6,6,6,6,7,7,7,7,7,7,7,7,7,7,7,7,7,7,7,7,7,7,7,7,7,7,7,7,7,7,7>>,
  <<0,0,1,2,3,3,3,4,4,4,4,4,5,5,5,5,5,5,5,5,5,6,6,6,6,6,6,6,6,6,6,6,6,6,6,6,7,7,7,7,7,7,7,7,7,7,7,7,7,7,7,7,7,7,7,7,7,7,7,7,7,7,7,7>>,
  <<0,0,1,2,3,3,3,4,4,4,4,4,5,5,5,5,5,5,5,5,6,6,6,6,6,6,6,6,6,6,6,6,6,6,6,6,7,7,7,7,7,7,7,7,7,7,7,7,7,7,7,7,7,7,7,7,7,7,7,7,7,7,7,8>>,
  <<0,0,1,2,3,3,3,4,4,4,4,4,5,5,5,5,5,5,5,5,6,6,6,6,6,6,6,6,6,6,6,6,6,6,6,7,7,7,7,7,7,7,7,7,7,7,7,7,7,7,7,7,7,7,7,7,7,7,7,7,7,8,8,8>>,
  <<0,0,1,2,3,3,3,4,4,4,4,5,5,5,5,5,5,5,5,5,6,6,6,6,6,6,6,6,6,6,6,6,6,6,7,7,7,7,7,7,7,7,7,7,7,7,7,7,7,7,7,7,7,7,7,7,7,7,7,7,8,8,8,8>>,
  <<0,0,1,2,3,3,3,4,4,4,4,5,5,5,5,5,5,5,5,5,6,6,6,6,6,6,6,6,6,6,6,6,6,6,7,7,7,7,7,7,7,7,7,7,7,7,7,7,7,7,7,7,7,7,7,7,7,7,7,8,8,8,8,8>>,
  <<0,0,1,2,3,3,3,4,4,4,4,5,5,5,5,5,5,5,5,6,6,6,6,6,6,6,6,6,6,6,6,6,6,7,7,7,7,7,7,7,7,7,7,7,7,7,7,7,7,7,7,7,7,7,7,7,7,7,8,8,8,8,8,8>>,
  <<0,0,1,2,3,3,3,4,4,4,4,5,5,5,5,5,5,5,5,6,6,6,6,6,6,6,6,6,6,6,6,6,6,7,7,7,7,7,7,7,7,7,7,7,7,7,7,7,7,7,7,7,7,7,7,7,7,8,8,8,8,8,8,8>>,
  <<0,0,2,2,3,3,3,4,4,4,4,5,5,5,5,5,5,5,5,6,6,6,6,6,6,6,6,6,6,6,6,6,7,7,7,7,7,7,7,7,7,7,7,7,7,7,7,7,7,7,7,7,7,7,7,7,8,8,8,8,8,8,8,8>>,
  <<0,0,2,2,3,3,3,4,4,4,4,5,5,5,5,5,5,5,5,6,6,6,6,6,6,6,6,6,6,6,6,6,7,7,7,7,7,7,7,7,7,7,7,7,7,7,7,7,7,7,7,7,7,7,7,8,8,8,8,8,8,8,8,8>>,
  <<0,0,2,2,3,3,4,4,4,4,4,5,5,5,5,5,5,5,6,6,6,6,6,6,6,6,6,6,6,6,6,6,7,7,7,7,7,7,7,7,7,7,7,7,7,7,7,7,7,7,7,7,7,7,8,8,8,8,8,8,8,8,8,8>>,
  <<0,0,2,2,3,3,4,4,4,4,4,5,5,5,5,5,5,5,6,6,6,6,6,6,6,6,6,6,6,6,6,7,7,7,7,7,7,7,7,7,7,7,7,7,7,7,7,7,7,7,7,7,7,8,8,8,8,8,8,8,8,8,8,8>>,
  <<0,0,2,2,3,3,4,4,4,4,4,5,5,5,5,5,5,5,6,6,6,6,6,6,6,6,6,6,6,6,6,7,7,7,7,7,7,7,7,7,7,7,7,7,7,7,7,7,7,7,7,7,7,8,8,8,8,8,8,8,8,8,8,8>>,
  <<0,0,2,2,3,3,4,4,4,4,4,5,5,5,5,5,5,5,6,6,6,6,6,6,6,6,6,6,6,6,7,7,7,7,7,7,7,7,7,7,7,7,7,7,7,7,7,7,7,7,7,7,8,8,8,8,8,8,8,8,8,8,8,8>>
>>
LMR_LAST == 63
lmr_get(depth, move_num) == LMR_TABLE[Min(move_num, LMR_LAST) + 1][Min(depth, LMR_LAST) + 1]

(***************************************************************************)
(* search.rs: constants and helpers                                        *)
(***************************************************************************)
MATE_VALUE == PIECE_VALUES[KING + 1]
SCORE_INF == I16_MAX
LMR_MIN_DEPTH == 3
RFP_EVAL_MARGIN == 75
\* the deadline is polled when nodes_visited is a multiple of this
POLL_EVERY == 1024
\* the depth below which an iteration searches with the full window
ASP_MIN_DEPTH == 5
ASP_WINDOW == 20
\* null-move search reduces the depth by this; RFP applies up to this depth
NMP_REDUCTION == 3
RFP_MAX_DEPTH == 5
I32_MAX == 2147483647
\* a score that encodes a mate distance: Depth is a u8, so ply < 256
is_mate_score(v) == v > MATE_VALUE - U8_MAX \/ v < -(MATE_VALUE - U8_MAX)

Rev(s) == [k \in 1..Len(s) |-> s[Len(s) + 1 - k]]
Take(s, n) == SubSeq(s, 1, Min(n, Len(s)))
Skip(s, n) == SubSeq(s, n + 1, Len(s))
\* every step-th element, starting with the first
StepBy(s, step) == [k \in 1..((Len(s) + step - 1) \div step) |-> s[(k - 1) * step + 1]]
Count(s, x) == Cardinality({k \in 1..Len(s) : s[k] = x})

is_repetition_draw_fourth(bh, halfmove_count, board_hash) ==
    IF halfmove_count < 4 THEN FALSE
    ELSE Count(StepBy(Skip(Take(Rev(bh), halfmove_count), 1), 2), board_hash) >= 3
is_repetition_draw_every_ply(bh, halfmove_count, board_hash) ==
    IF halfmove_count < 4 THEN FALSE
    ELSE Count(Take(Rev(bh), halfmove_count), board_hash) >= 2
\* Searcher::is_repetition_draw on the history bh
is_repetition_draw(bh, halfmove_count, board_hash) ==
    IF halfmove_count < 4 THEN FALSE
    ELSE Count(StepBy(Skip(Take(Rev(bh), halfmove_count), 1), 2), board_hash) >= 2

\* push_board_hash / pop_board_hash on [bh, ply]; ply is a u8
push_board_hash(h, board_hash) ==
    [bh |-> Append(h.bh, board_hash), ply |-> (h.ply + 1) % (U8_MAX + 1)]
pop_board_hash_keep_ply(h) ==
    [bh |-> SubSeq(h.bh, 1, Len(h.bh) - 1), ply |-> h.ply]
pop_board_hash(h) ==
    [bh |-> SubSeq(h.bh, 1, Len(h.bh) - 1), ply |-> (h.ply - 1) % (U8_MAX + 1)]

\* is_repetition_draw on the histories push_board_hash builds
MaxRepLen == 5
RepHashes == {Game[1].hash, Game[2].hash}
NoRep == [bh |-> << >>, ply |-> 0, tested |-> FALSE, halfmove_count |-> 0,
          board_hash |-> 0, out |-> FALSE]
RepIdle == rep = NoRep
RepPush ==
    /\ Len(rep.bh) < MaxRepLen
    /\ \E h \in RepHashes :
         LET r == push_board_hash([bh |-> rep.bh, ply |-> rep.ply], h)
         IN  rep' = [NoRep EXCEPT !.bh = r.bh, !.ply = r.ply]
    /\ UNCHANGED <<ttVars, histVars, ordVars, searchVars, conv, walk>>
RepTest ==
    /\ \E halfmove_count \in 0..(MaxRepLen + 1), h \in RepHashes :
         rep' = [rep EXCEPT !.tested = TRUE, !.halfmove_count = halfmove_count,
                            !.board_hash = h,
                            !.out = is_repetition_draw(rep.bh, halfmove_count, h)]
    /\ UNCHANGED <<ttVars, histVars, ordVars, searchVars, conv, walk>>

killer_at(k, depth) == IF depth \in DOMAIN k THEN k[depth] ELSE NoneOpt
killer_set(k, depth, mv) ==
    [d \in (DOMAIN k) \cup {depth} |-> IF d = depth THEN Some(mv) ELSE k[d]]

(***************************************************************************)
(* MovesIterator (the move orderer search.rs calls)                        *)
(***************************************************************************)
\* priority of a legal move in all-moves mode
all_moves_priority(b, m, tt_move, killer, hist) ==
    IF m.mv = tt_move THEN I32_MAX
    ELSE IF m.cap
    THEN piece_value(m.victim) * 10 - piece_value(m.piece) + HISTORY_LIMIT
    ELSE IF killer = Some(m.mv) THEN HISTORY_LIMIT
    ELSE hist[history_index(b, m)]
\* priority of a capture in captures-only mode
capture_priority(m) == piece_value(m.victim) * 10 - piece_value(m.piece)

\* index of the first maximum of s[from..]
RECURSIVE MaxIdx(_, _, _)
MaxIdx(s, k, best) ==
    IF k > Len(s) THEN best
    ELSE MaxIdx(s, k + 1, IF s[k].pri > s[best].pri THEN k ELSE best)
\* each next() selects the best of the unvisited suffix and swaps it to the frontier
RECURSIVE SelectionOrder(_, _)
SelectionOrder(s, cur) ==
    IF cur > Len(s) THEN s
    ELSE SelectionOrder(Swap(s, cur, MaxIdx(s, cur + 1, cur)), cur + 1)

with_all_moves(b, tt_move, killer, hist) ==
    LET ms == legal_moves(b)
    IN  SelectionOrder([k \in 1..Len(ms) |->
            [m |-> ms[k], pri |-> all_moves_priority(b, ms[k], tt_move, killer, hist)]], 1)
RECURSIVE FilterCaps(_, _)
FilterCaps(ms, k) ==
    IF k > Len(ms) THEN << >>
    ELSE (IF ms[k].cap THEN <<[m |-> ms[k], pri |-> capture_priority(ms[k])]>> ELSE << >>)
         \o FilterCaps(ms, k + 1)
with_capture_moves(b) == SelectionOrder(FilterCaps(legal_moves(b), 1), 1)

(***************************************************************************)
(* qsearch: [val, nodes] from the node count before the call; time_up is   *)
(* what the deadline poll reads if it is reached in this call              *)
(***************************************************************************)
RECURSIVE qsearch(_, _, _, _, _, _), qsearch_loop(_, _, _, _, _, _, _, _, _)
RECURSIVE qsearch_loop_fail_hard(_, _, _, _, _, _, _, _, _)
\* the capture loop, returning beta on a cutoff
qsearch_loop_fail_hard(pf, b, caps, k, alpha, beta, best_value, nodes, time_up) ==
    IF k > Len(caps) THEN [val |-> best_value, nodes |-> nodes]
    ELSE LET r == qsearch(pf, play(b, caps[k].m), -beta, -alpha, nodes, time_up)
             cur_value == -r.val
             alpha1 == Max(alpha, cur_value)
         IN  IF alpha1 >= beta THEN [val |-> beta, nodes |-> r.nodes]
             ELSE qsearch_loop_fail_hard(pf, b, caps, k + 1, alpha1, beta,
                                         Max(best_value, cur_value), r.nodes, time_up)
qsearch(pf, b, alpha, beta, nodes, time_up) ==
    LET n1 == nodes + 1
        stand_pat == evaluate(pf, b)
    IN  IF n1 % POLL_EVERY = 0 /\ time_up THEN [val |-> 0, nodes |-> n1]
        ELSE IF stand_pat >= beta THEN [val |-> stand_pat, nodes |-> n1]
        ELSE qsearch_loop(pf, b, with_capture_moves(b), 1, Max(alpha, stand_pat), beta,
                          stand_pat, n1, time_up)
qsearch_loop(pf, b, caps, k, alpha, beta, best_value, nodes, time_up) ==
    IF k > Len(caps) THEN [val |-> best_value, nodes |-> nodes]
    ELSE LET r == qsearch(pf, play(b, caps[k].m), -beta, -alpha, nodes, time_up)
             cur_value == -r.val
             alpha1 == Max(alpha, cur_value)
         IN  IF alpha1 >= beta THEN [val |-> alpha1, nodes |-> r.nodes]
             ELSE qsearch_loop(pf, b, caps, k + 1, alpha1, beta,
                               Max(best_value, cur_value), r.nodes, time_up)
\* a deadline poll is reached inside the call
qsearch_polls(pf, b, alpha, beta, nodes) ==
    qsearch(pf, b, alpha, beta, nodes, FALSE).nodes \div POLL_EVERY > nodes \div POLL_EVERY

(***************************************************************************)
(* utils.rs                                                                *)
(***************************************************************************)
SQ_A1 == 0
SQ_C1 == 2
SQ_E1 == 4
SQ_G1 == 6
SQ_H1 == 7
SQ_A8 == 56
SQ_C8 == 58
SQ_E8 == 60
SQ_G8 == 62
SQ_H8 == 63

\* board.piece_on(sq) == Some(piece), read off the position's legal moves
piece_on_is(b, sq, piece) ==
    \E k \in 1..Len(legal_moves(b)) :
        \/ legal_moves(b)[k].mv.from = sq /\ legal_moves(b)[k].piece = piece
        \/ /\ legal_moves(b)[k].mv.to = sq /\ legal_moves(b)[k].cap
           /\ legal_moves(b)[k].victim = piece
uci_to_kxr_move(b, mv) ==
    IF piece_on_is(b, mv.from, KING) /\ ~piece_on_is(b, mv.to, ROOK)
    THEN [mv EXCEPT !.to =
            CASE mv.from = SQ_E1 /\ mv.to = SQ_G1 -> SQ_H1
              [] mv.from = SQ_E8 /\ mv.to = SQ_G8 -> SQ_H8
              [] mv.from = SQ_E1 /\ mv.to = SQ_C1 -> SQ_A1
              [] mv.from = SQ_E8 /\ mv.to = SQ_C8 -> SQ_A8
              [] OTHER -> mv.to]
    ELSE mv
\* a translation that leaves the move as it is
kxr_to_uci_move_unchanged(b, mv) == mv
kxr_to_uci_move(b, mv) ==
    IF piece_on_is(b, mv.from, KING) /\ piece_on_is(b, mv.to, ROOK)
    THEN [mv EXCEPT !.to =
            CASE mv.from = SQ_E1 /\ mv.to = SQ_H1 -> SQ_G1
              [] mv.from = SQ_E8 /\ mv.to = SQ_H8 -> SQ_G8
              [] mv.from = SQ_E1 /\ mv.to = SQ_A1 -> SQ_C1
              [] mv.from = SQ_E8 /\ mv.to = SQ_A8 -> SQ_C8
              [] OTHER -> mv.to]
    ELSE mv
play_unchecked(b, mv) ==
    play(b, CHOOSE m \in {legal_moves(b)[k] : k \in 1..Len(legal_moves(b))} : m.mv = mv)

\* squares are numbered rank by rank, FILES to a rank
FILES == 8
\* a legal move is a castling when the king leaves its file by two or more
is_castling(m) ==
    /\ m.piece = KING /\ m.mv.from \div FILES = m.mv.to \div FILES
    /\ (m.mv.to - m.mv.from >= 2 \/ m.mv.from - m.mv.to >= 2)
\* the move as the UCI protocol writes it: a castling names the square the
\* king lands on, two files from where it stood
uci_of(m) ==
    IF is_castling(m)
    THEN [m.mv EXCEPT !.to = IF m.mv.to > m.mv.from THEN m.mv.from + 2 ELSE m.mv.from - 2]
    ELSE m.mv

\* the translators applied to a move of a board, in any order, at most
\* MaxConv times
MaxConv == 3
NoConv == [pc |-> "idle", board |-> Bd(1, 0), legal |-> GM(0, 0, None, PAWN, FALSE, PAWN, 1),
           form |-> "kxr", orig |-> NULL_MOVE, cur |-> NULL_MOVE, trail |-> << >>]
ConvIdle == conv = NoConv
ConvStart ==
    /\ conv.pc = "idle"
    /\ \E p \in Positions, form \in {"kxr", "uci"} :
       \E k \in 1..Len(Game[p].moves) :
         LET m == Game[p].moves[k]
             mv == IF form = "kxr" THEN m.mv ELSE uci_of(m)
         IN  conv' = [pc |-> "given", board |-> Bd(p, 0), legal |-> m, form |-> form,
                      orig |-> mv, cur |-> mv, trail |-> << >>]
    /\ UNCHANGED <<ttVars, histVars, ordVars, searchVars, rep, walk>>
ConvUciToKxr ==
    /\ conv.pc = "given" /\ Len(conv.trail) < MaxConv
    /\ conv' = [conv EXCEPT !.cur = uci_to_kxr_move(conv.board, conv.cur),
                            !.trail = Append(@, "uci_to_kxr")]
    /\ UNCHANGED <<ttVars, histVars, ordVars, searchVars, rep, walk>>
ConvKxrToUci ==
    /\ conv.pc = "given" /\ Len(conv.trail) < MaxConv
    /\ conv' = [conv EXCEPT !.cur = kxr_to_uci_move(conv.board, conv.cur),
                            !.trail = Append(@, "kxr_to_uci")]
    /\ UNCHANGED <<ttVars, histVars, ordVars, searchVars, rep, walk>>

(***************************************************************************)
(* Searcher::search_reset                                                  *)
(***************************************************************************)
\* the for loop over the prior moves: [board, bh]
RECURSIVE replay(_, _, _, _)
replay(b, bh, moves, k) ==
    IF k > Len(moves) THEN [board |-> b, bh |-> bh]
    ELSE LET b1 == play_unchecked(b, uci_to_kxr_move(b, moves[k]))
         IN  replay(b1, Append(bh, hash(b1)), moves, k + 1)
\* a reset that leaves the stop flag as the last search left it
search_reset_keeps_stop(b, moves) ==
    LET r == replay(b, <<hash(b)>>, moves, 1)
    IN  [board |-> r.board, bh |-> SubSeq(r.bh, 1, Len(r.bh) - 1),
         stop_search |-> stop_search, killers |-> << >>,
         best_move |-> NULL_MOVE, ply |-> 0]
search_reset(b, moves) ==
    LET r == replay(b, <<hash(b)>>, moves, 1)
    IN  [board |-> r.board, bh |-> SubSeq(r.bh, 1, Len(r.bh) - 1),
         stop_search |-> FALSE, killers |-> << >>,
         best_move |-> NULL_MOVE, ply |-> 0]

(***************************************************************************)
(* Inputs of a search                                                      *)
(***************************************************************************)
MaxDepth == 6
MaxPrior == 8
NProfiles == Len(EvalProfiles)
SearchTTBytes == {TT_ENTRY_SIZE * 8}
NodeStarts == {0, 960, 1007, 1015}
StartBoards == {Bd(1, 0), Bd(3, 0), Bd(6, 0), Bd(11, 0), Bd(13, 0), Bd(21, 0)}
PriorLens == {n \in {0, 4, 8} : n <= MaxPrior}
\* the game line that plays the first legal move n times
RECURSIVE FirstLine(_, _)
FirstLine(b, n) ==
    IF n = 0 \/ Len(legal_moves(b)) = 0 THEN << >>
    ELSE <<legal_moves(b)[1].mv>> \o FirstLine(play(b, legal_moves(b)[1]), n - 1)
\* the boards a line of moves passes through, the last one left out
RECURSIVE LineBoards(_, _, _)
LineBoards(b, moves, k) ==
    IF k > Len(moves) THEN << >>
    ELSE <<b>> \o LineBoards(play_unchecked(b, uci_to_kxr_move(b, moves[k])), moves, k + 1)

(***************************************************************************)
(* Activation records of search_internal                                   *)
(***************************************************************************)
NoRet == [valid |-> FALSE, val |-> 0, path |-> "", kind |-> "", board |-> Bd(1, 0),
          depth |-> 0, hist0 |-> << >>, ply0 |-> 0, alpha0 |-> 0, beta0 |-> 0,
          beta1 |-> 0]
NewFrame(b, depth, alpha, beta, kind, bh, p) ==
    [board |-> b, depth |-> depth, alpha |-> alpha, beta |-> beta, kind |-> kind,
     pc |-> "start", alpha_orig |-> alpha, beta_orig |-> beta, is_pv_node |-> FALSE,
     tt_move |-> NULL_MOVE, static_eval |-> 0,
     best_value |-> -SCORE_INF, best_move |-> NULL_MOVE,
     moves |-> << >>, move_num |-> 0,
     \* what board_history and ply were when the call was made (beta_orig is
     \* the beta it was made with)
     hist0 |-> bh, ply0 |-> p]
Top == stack[Len(stack)]
Pop(s) == SubSeq(s, 1, Len(s) - 1)
SetTop(s, f) == [s EXCEPT ![Len(s)] = f]
RetOf(f, v, path) ==
    [valid |-> TRUE, val |-> v, path |-> path, kind |-> f.kind, board |-> f.board,
     depth |-> f.depth, hist0 |-> f.hist0, ply0 |-> f.ply0,
     \* the window of the call, and its beta when it returned
     alpha0 |-> f.alpha_orig, beta0 |-> f.beta_orig, beta1 |-> f.beta]
Hist == [bh |-> board_history, ply |-> ply]

\* what a search was given and what its iterations produced; misses counts the
\* re-searches of the current iteration; ttply is the ply at which the entry of
\* each hash was last stored, and mate_reuse says that a probe has hit an entry
\* holding a mate score at another ply than that
\* the arguments and the value of a qsearch call
NoQCall == [valid |-> FALSE, board |-> Bd(1, 0), alpha |-> 0, beta |-> 0, nodes |-> 0,
            time_up |-> FALSE, val |-> 0]
\* searches counts the calls of search on this Searcher, and prev_stop is the
\* stop flag the latest of them found; ttply lives as long as the table
NoLog == [prior |-> << >>, nodes0 |-> 0, results |-> << >>, misses |-> 0,
          ttply |-> << >>, mate_reuse |-> FALSE, qcall |-> NoQCall,
          searches |-> 0, prev_stop |-> FALSE]
\* the ply recorded for the entry of hash h
ply_set(m, h, p) == [x \in (DOMAIN m) \cup {h} |-> IF x = h THEN p ELSE m[x]]

SearchIdle ==
    /\ board_history = << >> /\ stop_search = FALSE /\ killers = << >>
    /\ best_move = NULL_MOVE /\ ply = 0
    /\ phase = "idle" /\ prof = 1 /\ board = Bd(1, 0) /\ max_depth = 0
    /\ nodes_visited = 0 /\ stats_depth = 0 /\ timeUp = FALSE
    /\ depth_i = 0 /\ id_best_move = NULL_MOVE /\ id_best_value = 0
    /\ window_size = 0 /\ asp_alpha = 0 /\ asp_beta = 0
    /\ stack = << >> /\ ret = NoRet /\ log = NoLog

tablesIdle == <<ttGot, ttSet, histPanic, histOvf, histOps, ordVars, conv, rep, walk>>

(***************************************************************************)
(* Searcher::search: reset, iterative deepening, aspiration windows        *)
(***************************************************************************)
\* for i in 1..=max_depth
id_range_from_zero(md) == 0..md
id_range(md) == 1..md
\* if self.stop_search || timer.time_up() { break; }
deadline_break_stop_only(stop, time_up) == stop
deadline_break(stop, time_up) == stop \/ time_up

\* the call of search_internal an iteration starts with
RootCall(i, alpha, beta, b, bh, p) ==
    /\ depth_i' = i
    /\ stack' = <<NewFrame(b, i, alpha, beta, "root", bh, p)>>
    /\ ret' = NoRet
    /\ phase' = "run"
\* the head of the for loop body for iteration i
BeginIter(i, prev_value, b, bh, p) ==
    IF i < ASP_MIN_DEPTH
    THEN /\ RootCall(i, -SCORE_INF, SCORE_INF, b, bh, p)
         /\ UNCHANGED <<window_size, asp_alpha, asp_beta>>
    ELSE /\ window_size' = ASP_WINDOW
         /\ asp_alpha' = prev_value - ASP_WINDOW
         /\ asp_beta' = prev_value + ASP_WINDOW
         /\ RootCall(i, prev_value - ASP_WINDOW, prev_value + ASP_WINDOW, b, bh, p)

\* the body of search up to the first root call
SearchCall(pf, b0, n, md, ns) ==
    LET moves == FirstLine(b0, n)
        r == search_reset(b0, moves)
    IN  /\ prof' = pf
        /\ board' = r.board
        /\ max_depth' = md
        /\ nodes_visited' = ns
        /\ board_history' = r.bh
        /\ log' = [NoLog EXCEPT !.prior = LineBoards(b0, moves, 1), !.nodes0 = ns,
                                !.searches = log.searches + 1,
                                !.prev_stop = stop_search,
                                !.ttply = log.ttply]
        /\ IF id_range(md) # {}
           THEN BeginIter(CHOOSE i \in id_range(md) : \A j \in id_range(md) : i <= j,
                          0, r.board, r.bh, 0)
           ELSE /\ phase' = "done"
                /\ UNCHANGED <<depth_i, stack, ret, window_size, asp_alpha, asp_beta>>
        /\ stop_search' = r.stop_search
        /\ history' = hist_clear(history)
        /\ killers' = r.killers
        /\ best_move' = r.best_move
        /\ ply' = r.ply
        /\ stats_depth' = 0
        /\ timeUp' = FALSE
        /\ id_best_move' = NULL_MOVE
        /\ id_best_value' = 0
        /\ UNCHANGED <<tt, tablesIdle>>

StartSearch ==
    /\ phase = "idle"
    /\ \E pf \in 1..NProfiles, b0 \in StartBoards, n \in PriorLens,
          md \in 0..MaxDepth, ns \in NodeStarts :
         SearchCall(pf, b0, n, md, ns)

\* the searches of a game: search called again on the Searcher that has
\* searched before
MaxSearches == 2
SeqProfiles == {1}
SeqBoards == {Bd(1, 0), Bd(6, 0)}
SeqPriors == {0, 4}
SeqDepths == {0, 3, 5}
SeqNodeStarts == {0, 1015}
SearchAgain ==
    /\ phase \in {"idle", "done"}
    /\ log.searches < MaxSearches
    /\ \E pf \in SeqProfiles, b0 \in SeqBoards, n \in SeqPriors,
          md \in SeqDepths, ns \in SeqNodeStarts :
         SearchCall(pf, b0, n, md, ns)

\* Searcher::new_game, between two searches
NewGame ==
    /\ phase \in {"idle", "done"}
    /\ tt' = tt_clear(tt)
    /\ UNCHANGED <<ttGot, ttSet, histVars, ordVars, searchVars, conv, rep, walk>>

\* the root call returned outside the aspiration window: widen and search again
AspRetry ==
    /\ phase = "run" /\ stack = << >> /\ ret.valid
    /\ depth_i >= ASP_MIN_DEPTH
    /\ ret.val >= asp_beta \/ ret.val <= asp_alpha
    /\ LET hi == ret.val >= asp_beta
           beta1 == IF hi THEN SatAdd(asp_beta, window_size) ELSE asp_beta
           alpha1 == IF hi THEN asp_alpha ELSE SatSub(asp_alpha, window_size)
       IN  /\ asp_alpha' = alpha1
           /\ asp_beta' = beta1
           /\ window_size' = SatMul(window_size, 2)
           /\ RootCall(depth_i, alpha1, beta1, board, board_history, ply)
    /\ log' = [log EXCEPT !.misses = @ + 1]
    /\ UNCHANGED <<tt, history, selfVars, prof, board, max_depth, stats_depth,
                   id_best_move, id_best_value, nodes_visited, timeUp, tablesIdle>>

\* the iteration has its value: normalize, then adopt it or break
IterEnd ==
    /\ phase = "run" /\ stack = << >> /\ ret.valid
    /\ depth_i < ASP_MIN_DEPTH \/ (asp_alpha < ret.val /\ ret.val < asp_beta)
    /\ history' = hist_normalize(history)
    /\ \E t \in {timeUp, TRUE} :
         LET break == deadline_break(stop_search, t)
         IN  /\ timeUp' = IF stop_search THEN timeUp ELSE t
             \* what the iteration produced, and whether the deadline was seen in it
             /\ log' = [log EXCEPT
                         !.results = Append(@, [val |-> ret.val, move |-> best_move,
                                                depth |-> depth_i,
                                                cut |-> stop_search \/ t]),
                         !.misses = 0]
             /\ IF break
                THEN /\ phase' = "done"
                     /\ ret' = NoRet
                     /\ UNCHANGED <<stats_depth, id_best_move, id_best_value, depth_i,
                                    stack, window_size, asp_alpha, asp_beta>>
                ELSE /\ stats_depth' = depth_i
                     /\ id_best_move' = best_move
                     /\ id_best_value' = ret.val
                     /\ IF depth_i + 1 \in id_range(max_depth)
                        THEN BeginIter(depth_i + 1, ret.val, board, board_history, ply)
                        ELSE /\ phase' = "done"
                             /\ ret' = NoRet
                             /\ UNCHANGED <<depth_i, stack, window_size, asp_alpha, asp_beta>>
    /\ UNCHANGED <<tt, selfVars, prof, board, max_depth, nodes_visited, tablesIdle>>

(***************************************************************************)
(* Searcher::search_internal, one action per stretch between two calls     *)
(***************************************************************************)
\* the score of a mated node at ply p
mate_score_plus_ply(p) == -(MATE_VALUE + p)
mate_score_no_ply(p) == -MATE_VALUE
mate_score(p) == -(MATE_VALUE - p)

\* if !is_pv_node && self.ply > 0, read after push_board_hash
prunes_whatever_the_window(is_pv_node, p) == p > 0
prunes(is_pv_node, p) == ~is_pv_node /\ p > 0

\* reverse futility pruning applies at the node
rfp_applies(f) ==
    /\ f.depth <= RFP_MAX_DEPTH
    /\ checkers_is_empty(f.board)
    /\ f.static_eval >= f.beta + RFP_EVAL_MARGIN * f.depth

\* the probe of the call uses an entry that holds a mate score and was stored
\* at another ply
MateHit(f, t) ==
    LET board_hash == hash(f.board)
        tt_res == tt_get(tt, board_hash)
    IN  /\ ~(stop_search \/ ((nodes_visited + 1) % POLL_EVERY = 0 /\ t))
        /\ ~is_repetition_draw(board_history, f.board.hm, board_hash)
        /\ IsSome(tt_res) /\ ply > 0 /\ Unwrap(tt_res).depth >= f.depth
        /\ is_mate_score(Unwrap(tt_res).best_value)
        /\ log.ttply[board_hash] # ply

\* entry of the call up to its first return, its first call or its move loop;
\* t is what timer.time_up() answers if it is asked
EnterOutcome(f, t) ==
    LET n1 == nodes_visited + 1
        polls == ~stop_search /\ n1 % POLL_EVERY = 0
        board_hash == hash(f.board)
        is_pv_node == f.beta > f.alpha + 1
        tt_res == tt_get(tt, board_hash)
        tte == Unwrap(tt_res)
        usable == IsSome(tt_res) /\ ply > 0 /\ tte.depth >= f.depth
        alpha1 == IF usable /\ tte.node_type = "LowerBound"
                  THEN Max(f.alpha, tte.best_value) ELSE f.alpha
        beta1 == IF usable /\ tte.node_type = "UpperBound"
                 THEN Min(f.beta, tte.best_value) ELSE f.beta
        tt_move == IF IsSome(tt_res) THEN tte.best_move ELSE NULL_MOVE
        static_eval == IF IsSome(tt_res) THEN tte.best_value ELSE evaluate(prof, f.board)
        base == [act |-> "ret", val |-> 0, path |-> "stop", stop |-> stop_search,
                 nodes |-> n1, polled |-> polls, h |-> Hist, frame |-> f, child |-> f,
                 qcall |-> NoQCall]
    IN  IF stop_search \/ (n1 % POLL_EVERY = 0 /\ t)
        THEN [base EXCEPT !.stop = TRUE]
        ELSE IF is_repetition_draw(board_history, f.board.hm, board_hash)
        THEN [base EXCEPT !.path = "repetition"]
        ELSE IF usable /\ tte.node_type = "Exact"
        THEN [base EXCEPT !.val = tte.best_value, !.path = "tt_exact"]
        ELSE IF usable /\ alpha1 >= beta1
        THEN [base EXCEPT !.val = tte.best_value, !.path = "tt_cutoff"]
        ELSE IF status(f.board) = "Won"
        THEN [base EXCEPT !.val = mate_score(ply), !.path = "won"]
        ELSE IF status(f.board) = "Drawn"
        THEN [base EXCEPT !.path = "drawn"]
        ELSE IF f.depth = 0
        THEN LET q == qsearch(prof, f.board, alpha1, beta1, n1, t)
             IN  [base EXCEPT !.val = q.val, !.path = "qsearch", !.nodes = q.nodes,
                              !.polled = polls \/ qsearch_polls(prof, f.board, alpha1, beta1, n1),
                              !.qcall = [valid |-> TRUE, board |-> f.board, alpha |-> alpha1,
                                         beta |-> beta1, nodes |-> n1, time_up |-> t,
                                         val |-> q.val]]
        ELSE LET it == with_all_moves(f.board, tt_move, killer_at(killers, f.depth), history)
                 h1 == push_board_hash(Hist, board_hash)
                 f1 == [f EXCEPT !.alpha = alpha1, !.beta = beta1, !.alpha_orig = f.alpha,
                                 !.is_pv_node = is_pv_node, !.tt_move = tt_move,
                                 !.static_eval = static_eval, !.moves = it,
                                 !.best_value = -SCORE_INF, !.best_move = NULL_MOVE,
                                 !.move_num = 0]
                 prune == prunes(is_pv_node, h1.ply)
                 nm == null_move(f.board)
             IN  IF prune /\ f.depth >= NMP_REDUCTION /\ IsSome(nm)
                 THEN [base EXCEPT !.act = "call", !.h = h1,
                          !.frame = [f1 EXCEPT !.pc = "nmp_wait"],
                          !.child = NewFrame(Unwrap(nm), f.depth - NMP_REDUCTION,
                                             -beta1, -beta1 + 1, "nmp", h1.bh, h1.ply)]
                 ELSE IF prune /\ rfp_applies(f1)
                 THEN [base EXCEPT !.val = static_eval, !.path = "rfp",
                                   !.h = pop_board_hash(h1)]
                 ELSE [base EXCEPT !.act = "loop", !.h = h1,
                          !.frame = [f1 EXCEPT !.pc = IF Len(it) = 0 THEN "finalize"
                                                      ELSE "loop"]]

\* what the entry of the call leaves behind
EnterApply(o, t) ==
    /\ nodes_visited' = o.nodes
    /\ timeUp' = IF o.polled THEN t ELSE timeUp
    /\ stop_search' = o.stop
    /\ board_history' = o.h.bh
    /\ ply' = o.h.ply
    /\ IF o.act = "ret"
       THEN stack' = Pop(stack) /\ ret' = RetOf(Top, o.val, o.path)
       ELSE IF o.act = "call"
       THEN stack' = Append(SetTop(stack, o.frame), o.child) /\ ret' = NoRet
       ELSE stack' = SetTop(stack, o.frame) /\ ret' = NoRet
    /\ log' = [log EXCEPT !.mate_reuse = @ \/ MateHit(Top, t), !.qcall = o.qcall]
Enter ==
    /\ phase = "run" /\ stack # << >> /\ Top.pc = "start"
    /\ \E t \in {timeUp, TRUE} : EnterApply(EnterOutcome(Top, t), t)
    /\ UNCHANGED <<tt, history, killers, best_move, idVars, tablesIdle>>

\* the null-move search returned
NmpReturn ==
    /\ phase = "run" /\ stack # << >> /\ Top.pc = "nmp_wait" /\ ret.valid
    /\ LET f == Top
           null_move_value == -ret.val
           h0 == pop_board_hash(Hist)
       IN  IF null_move_value >= f.beta
           THEN /\ board_history' = h0.bh /\ ply' = h0.ply
                /\ stack' = Pop(stack)
                /\ ret' = RetOf(f, null_move_value, "nmp")
           ELSE IF rfp_applies(f)
           THEN /\ board_history' = h0.bh /\ ply' = h0.ply
                /\ stack' = Pop(stack)
                /\ ret' = RetOf(f, f.static_eval, "rfp")
           ELSE /\ stack' = SetTop(stack, [f EXCEPT !.pc = IF Len(f.moves) = 0
                                                          THEN "finalize" ELSE "loop"])
                /\ ret' = NoRet
                /\ UNCHANGED <<board_history, ply>>
    /\ UNCHANGED <<tt, history, stop_search, killers, best_move, idVars,
                   nodes_visited, timeUp, log, tablesIdle>>

\* a reduction that tests neither the remaining depth nor the clamp
reduction_at_any_depth(f, m, move_board) ==
    IF /\ f.move_num >= 2 + 2 * (IF f.is_pv_node THEN 1 ELSE 0)
       /\ ~m.cap
       /\ m.mv.promotion = None
       /\ checkers_is_empty(move_board)
    THEN lmr_get(Max(f.depth, LMR_MIN_DEPTH), f.move_num)
    ELSE 0
\* lmr_table.get(depth, move_num).clamp(0, depth - 2)
lmr_reduction(depth, move_num) == Max(0, Min(lmr_get(depth, move_num), depth - 2))
\* late move reduction of the move about to be searched
reduction_of(f, m, move_board) ==
    IF /\ f.depth >= LMR_MIN_DEPTH
       /\ f.move_num >= 2 + 2 * (IF f.is_pv_node THEN 1 ELSE 0)
       /\ ~m.cap
       /\ m.mv.promotion = None
       /\ checkers_is_empty(move_board)
    THEN lmr_reduction(f.depth, f.move_num)
    ELSE 0

\* the head of the move loop: play the next move and make its first call
LoopNext ==
    /\ phase = "run" /\ stack # << >> /\ Top.pc = "loop"
    /\ LET f == Top
           m == f.moves[f.move_num + 1].m
           move_board == play(f.board, m)
           new_depth == f.depth - reduction_of(f, m, move_board) - 1
       IN  IF f.move_num = 0
           THEN stack' = Append(SetTop(stack, [f EXCEPT !.pc = "first_wait"]),
                    NewFrame(move_board, f.depth - 1, -f.beta, -f.alpha, "first",
                             board_history, ply))
           ELSE stack' = Append(SetTop(stack, [f EXCEPT !.pc = "nw_wait"]),
                    NewFrame(move_board, new_depth, -f.alpha - 1, -f.alpha, "nw",
                             board_history, ply))
    /\ ret' = NoRet
    /\ UNCHANGED <<tt, history, selfVars, idVars, nodes_visited, timeUp, log, tablesIdle>>

\* the rest of the loop body once the move has its value
AfterMove(f, cur_value) ==
    LET m == f.moves[f.move_num + 1].m
        better == cur_value > f.best_value
        best_value1 == IF better THEN cur_value ELSE f.best_value
        best_move1 == IF better THEN m.mv ELSE f.best_move
        alpha1 == Max(f.alpha, best_value1)
        cutoff == alpha1 >= f.beta
        last == f.move_num + 1 >= Len(f.moves)
    IN  /\ killers' = IF cutoff /\ ~m.cap THEN killer_set(killers, f.depth, m.mv)
                      ELSE killers
        /\ history' = IF cutoff /\ ~m.cap
                      THEN hist_update(history, history_index(f.board, m), f.depth)
                      ELSE history
        /\ stack' = SetTop(stack, [f EXCEPT !.best_value = best_value1,
                                            !.best_move = best_move1,
                                            !.alpha = alpha1,
                                            !.move_num = @ + 1,
                                            !.pc = IF cutoff \/ last THEN "finalize"
                                                   ELSE "loop"])
        /\ ret' = NoRet

\* the first move's search or a full-window re-search returned
ChildReturn ==
    /\ phase = "run" /\ stack # << >> /\ Top.pc \in {"first_wait", "re_wait"} /\ ret.valid
    /\ AfterMove(Top, -ret.val)
    /\ UNCHANGED <<tt, board_history, stop_search, best_move, ply, idVars,
                   nodes_visited, timeUp, log, tablesIdle>>

\* the null-window search of a later move returned
NwReturn ==
    /\ phase = "run" /\ stack # << >> /\ Top.pc = "nw_wait" /\ ret.valid
    /\ LET f == Top
           tmp_value == -ret.val
       IN  IF f.alpha < tmp_value /\ tmp_value < f.beta
           THEN /\ stack' = Append(SetTop(stack, [f EXCEPT !.pc = "re_wait"]),
                      NewFrame(ret.board, f.depth - 1, -f.beta, -f.alpha, "re",
                               board_history, ply))
                /\ ret' = NoRet
                /\ UNCHANGED <<killers, history>>
           ELSE AfterMove(f, tmp_value)
    /\ UNCHANGED <<tt, board_history, stop_search, best_move, ply, idVars,
                   nodes_visited, timeUp, log, tablesIdle>>

\* after the move loop: pop, store the node in the table, return
\* node type to be stored in the TT
node_type_by_raised_alpha(f) ==
    IF f.best_value <= f.alpha THEN "UpperBound"
    ELSE IF f.best_value >= f.beta THEN "LowerBound"
    ELSE "Exact"
node_type_of(f) ==
    IF f.best_value <= f.alpha_orig THEN "UpperBound"
    ELSE IF f.best_value >= f.beta THEN "LowerBound"
    ELSE "Exact"
Finalize ==
    /\ phase = "run" /\ stack # << >> /\ Top.pc = "finalize"
    /\ LET f == Top
           h0 == pop_board_hash(Hist)
           board_hash == hash(f.board)
           node_type == node_type_of(f)
       IN  /\ board_history' = h0.bh /\ ply' = h0.ply
           /\ tt' = tt_set(tt, board_hash,
                           TTEntry(board_hash, f.best_move, f.best_value, f.depth, node_type))
           /\ best_move' = IF h0.ply = 0 THEN f.best_move ELSE best_move
           /\ stack' = Pop(stack)
           /\ ret' = RetOf(f, f.best_value, "finalize")
           /\ log' = [log EXCEPT !.ttply = ply_set(@, board_hash, h0.ply)]
    /\ UNCHANGED <<history, stop_search, killers, idVars, nodes_visited, timeUp,
                   tablesIdle>>

(***************************************************************************)
(* The recursion of search_internal on its own: the depth of every active  *)
(* call, the ply counter and the history, without boards and values        *)
(***************************************************************************)
\* killers: [Option<Move>; 257]
KILLERS_LEN == 257
\* the depths of the root calls walked: Depth::MAX is what search_for_time
\* hands to search
WalkRoots == {1, 4, U8_MAX}
\* move_num of a late move; lmr_table.get caps it at 63
WalkMoveNums == {1, 2, 4, LMR_LAST + 1}
\* the calls made below depth - 1 (null move, LMR) are walked from the nodes
\* at most this far from the root and from the nodes of at most this depth
MaxReducedPly == 2
MaxReducedDepth == 8
NoWalk == [pc |-> "idle", root |-> 0, depths |-> << >>,
           h |-> [bh |-> << >>, ply |-> 0], popped |-> FALSE]
WalkIdle == walk = NoWalk
\* a node that searches its children to its own depth
child_depths_not_reduced(depth, p, is_pv_node) == {depth}
\* the depths search_internal(depth) calls itself with, after its push: the
\* null-move search, the first move and the full re-search, the late moves
child_depths(depth, p, is_pv_node) ==
    {depth - 1}
    \cup (IF ~is_pv_node /\ p > 0 /\ depth >= NMP_REDUCTION
          THEN {depth - NMP_REDUCTION} ELSE {})
    \cup {depth - (IF depth >= LMR_MIN_DEPTH
                      /\ move_num >= 2 + 2 * (IF is_pv_node THEN 1 ELSE 0)
                   THEN lmr_reduction(depth, move_num) ELSE 0) - 1 :
             move_num \in WalkMoveNums}
WalkTop == walk.depths[Len(walk.depths)]
\* the top call returns to its caller, or to search
WalkReturnTo(h, popped) ==
    IF Len(walk.depths) = 1 THEN NoWalk
    ELSE [walk EXCEPT !.depths = Pop(@), !.pc = "loop", !.h = h, !.popped = popped]

\* for i in 1..=max_depth: the root call of iteration i, at ply 0
WalkRoot ==
    /\ walk.pc = "idle"
    /\ \E i \in WalkRoots :
         walk' = [NoWalk EXCEPT !.pc = "enter", !.root = i, !.depths = <<i>>]
    /\ UNCHANGED <<ttVars, histVars, ordVars, searchVars, conv, rep>>
\* the call up to its push: it returns before it (deadline, repetition, table
\* hit, mate or draw, depth 0) or pushes the hash and enters its move loop
WalkEnter ==
    /\ walk.pc = "enter"
    /\ \E early \in BOOLEAN :
         IF early \/ WalkTop = 0
         THEN walk' = WalkReturnTo(walk.h, FALSE)
         ELSE walk' = [walk EXCEPT !.pc = "loop", !.h = push_board_hash(@, 0),
                                   !.popped = FALSE]
    /\ UNCHANGED <<ttVars, histVars, ordVars, searchVars, conv, rep>>
\* a recursive call made after the push
WalkCall ==
    /\ walk.pc = "loop"
    /\ \E is_pv_node \in BOOLEAN :
         \E c \in child_depths(WalkTop, walk.h.ply, is_pv_node) :
            /\ c < WalkTop - 1 =>
                   (Len(walk.depths) <= MaxReducedPly \/ WalkTop <= MaxReducedDepth)
            /\ walk' = [walk EXCEPT !.pc = "enter", !.depths = Append(@, c),
                                    !.popped = FALSE]
    /\ UNCHANGED <<ttVars, histVars, ordVars, searchVars, conv, rep>>
\* the call pops the hash and returns (null-move or RFP return, end of loop)
WalkLeave ==
    /\ walk.pc = "loop"
    /\ walk' = WalkReturnTo(pop_board_hash(walk.h), TRUE)
    /\ UNCHANGED <<ttVars, histVars, ordVars, searchVars, conv, rep>>

(***************************************************************************)
(* Specifications                                                          *)
(***************************************************************************)
\* the transposition table on its own
InitTT == TTInit /\ HistIdle /\ OrdIdle /\ SearchIdle /\ ConvIdle /\ RepIdle /\ WalkIdle
NextTT == TTNew \/ TTSet \/ TTGet \/ TTClear
SpecTT == InitTT /\ [][NextTT]_vars

\* the history table on its own
InitHist == TTIdle /\ HistInit /\ OrdIdle /\ SearchIdle /\ ConvIdle /\ RepIdle /\ WalkIdle
NextHist == HistUpdate \/ HistNormalize \/ HistClear
SpecHist == InitHist /\ [][NextHist]_vars

\* the move collector and its iterator on their own
InitOrd == TTIdle /\ HistIdle /\ OrdInit /\ SearchIdle /\ ConvIdle /\ RepIdle /\ WalkIdle
NextOrd == OrdNew \/ OrdNext
SpecOrd == InitOrd /\ [][NextOrd]_vars

\* the move translators on their own
InitConv == TTIdle /\ HistIdle /\ OrdIdle /\ SearchIdle /\ ConvIdle /\ RepIdle /\ WalkIdle
NextConv == ConvStart \/ ConvUciToKxr \/ ConvKxrToUci
SpecConv == InitConv /\ [][NextConv]_vars

\* the repetition test on its own
InitRep == TTIdle /\ HistIdle /\ OrdIdle /\ SearchIdle /\ ConvIdle /\ RepIdle /\ WalkIdle
NextRep == RepPush \/ RepTest
SpecRep == InitRep /\ [][NextRep]_vars

\* Searcher::new followed by one search
Init ==
    /\ \E bytes \in SearchTTBytes : tt = tt_new(bytes)
    /\ ttGot = NoGet /\ ttSet = NoSet
    /\ HistIdle /\ OrdIdle /\ SearchIdle /\ ConvIdle /\ RepIdle /\ WalkIdle
Next ==
    \/ StartSearch
    \/ Enter
    \/ NmpReturn
    \/ LoopNext
    \/ ChildReturn
    \/ NwReturn
    \/ Finalize
    \/ AspRetry
    \/ IterEnd
Spec == Init /\ [][Next]_vars

\* Searcher::new followed by the searches and the new games of a session
InitSeq ==
    /\ \E bytes \in SearchTTBytes : tt = tt_new(bytes)
    /\ ttGot = NoGet /\ ttSet = NoSet
    /\ HistIdle /\ OrdIdle /\ SearchIdle /\ ConvIdle /\ RepIdle /\ WalkIdle
NextSeq ==
    \/ SearchAgain
    \/ NewGame
    \/ Enter
    \/ NmpReturn
    \/ LoopNext
    \/ ChildReturn
    \/ NwReturn
    \/ Finalize
    \/ AspRetry
    \/ IterEnd
SpecSeq == InitSeq /\ [][NextSeq]_vars

\* the recursion on its own
InitWalk == TTIdle /\ HistIdle /\ OrdIdle /\ SearchIdle /\ ConvIdle /\ RepIdle /\ WalkIdle
NextWalk == WalkRoot \/ WalkEnter \/ WalkCall \/ WalkLeave
SpecWalk == InitWalk /\ [][NextWalk]_vars

(***************************************************************************)
(* Properties of the search                                                *)
(***************************************************************************)
Abs(x) == IF x < 0 THEN -x ELSE x
Last(s) == s[Len(s)]
IsLegalAt(b, mv) == \E k \in 1..Len(legal_moves(b)) : legal_moves(b)[k].mv = mv

\* C1: when a search_internal call has returned, by whichever return path,
\* board_history has the length and contents and ply has the value they had
\* immediately before the call.
C1_HistoryRestored == ret.valid => board_history = ret.hist0 /\ ply = ret.ply0
\* a null-move cutoff returned below the root: the hash was pushed, a child
\* call ran, and the early return popped it
C1_Witness ==
    /\ ret.valid /\ ret.path = "nmp" /\ ret.ply0 > 0
    /\ board_history = ret.hist0 /\ Len(ret.hist0) > 0

\* C2: if the deadline is seen in iteration d (stop_search set, or the timer up
\* when the iteration ends), search returns the best_move and best_value that
\* were recorded at the end of iteration d-1 (the initial NULL_MOVE and 0 when
\* d is the first iteration) and stats.depth stays d-1.
C2_AbortKeepsLastIteration ==
    (phase = "done" /\ Len(log.results) >= 1 /\ Last(log.results).cut) =>
        LET n == Len(log.results)
        IN  /\ stats_depth = Last(log.results).depth - 1
            /\ IF n = 1
               THEN id_best_move = NULL_MOVE /\ id_best_value = 0
               ELSE /\ id_best_move = log.results[n - 1].move
                    /\ id_best_value = log.results[n - 1].val
                    /\ ~log.results[n - 1].cut
\* an iteration d >= 2 was cut by stop_search after producing a value and a
\* move that differ from those of iteration d-1
C2_Witness ==
    /\ phase = "done" /\ Len(log.results) >= 2 /\ Last(log.results).cut /\ stop_search
    /\ Last(log.results).val # log.results[Len(log.results) - 1].val
    /\ Last(log.results).move # log.results[Len(log.results) - 1].move


\* the positions before the one the returned call searched: the replayed game,
\* then the nodes on the search path
LineBefore == log.prior \o [k \in 1..Len(stack) |-> stack[k].board]
\* earlier positions with the hash and side to move of b and no irreversible
\* move since
EarlierOccurrences(line, b) ==
    {j \in 1..Len(line) :
        /\ hash(line[j]) = hash(b)
        /\ side_to_move(line[j]) = side_to_move(b)
        /\ \A k \in (j + 1)..Len(line) : line[k].hm > 0
        /\ b.hm > 0}
\* C3: for a root position with at least one legal move, search returns a
\* best_move that is a legal move of the root, also when the deadline elapses
\* early. (Stated for max_depth >= 1 and a root that is not itself a
\* repetition draw, the cases in which an iteration searches the root's moves.)
C3_BestMoveLegal ==
    (/\ phase = "done" /\ max_depth >= 1 /\ status(board) = "Ongoing"
     /\ Cardinality(EarlierOccurrences(log.prior, board)) < 2) =>
        IsLegalAt(board, id_best_move)

\* C4: a call on a position whose hash occurred twice before among the
\* same-side positions since the last irreversible move returns 0, and a search
\* started on such a position returns the value 0.
C4_ThirdOccurrenceIsZero ==
    /\ (ret.valid /\ Cardinality(EarlierOccurrences(LineBefore, ret.board)) >= 2)
          => ret.val = 0
    /\ (phase = "done" /\ Cardinality(EarlierOccurrences(log.prior, board)) >= 2)
          => id_best_value = 0
\* below the root, with no deadline seen, a position repeats one occurrence
\* from the replayed game and one from the search path
C4_Witness ==
    /\ ret.valid /\ ret.path = "repetition" /\ ret.ply0 > 0 /\ ~stop_search
    /\ \E j \in EarlierOccurrences(LineBefore, ret.board) : j <= Len(log.prior)
    /\ \E j \in EarlierOccurrences(LineBefore, ret.board) : j > Len(log.prior)

\* doublings after which a window that starts at w is wider than span
RECURSIVE Doublings(_, _)
Doublings(w, span) == IF w > span THEN 0 ELSE 1 + Doublings(2 * w, span)
\* once the window exceeds the span of all values a miss closes its side for
\* good, so one more miss on either side ends the loop
AspMissLimit == Doublings(ASP_WINDOW, 2 * (MATE_VALUE + 1)) + 2
\* C8: in every iteration d >= 5 the aspiration loop ends after finitely many
\* re-searches, at most AspMissLimit of them, whether the calls return real
\* values or stop_search is set and every call returns 0.
C8_AspirationTerminates == log.misses <= AspMissLimit
\* after a mate score, stop_search was set in the iteration and the calls that
\* return 0 have made the loop double its window nine times
C8_Witness ==
    /\ phase = "run" /\ depth_i >= ASP_MIN_DEPTH /\ stop_search
    /\ id_best_value > MATE_VALUE - U8_MAX
    /\ log.misses >= 9 /\ window_size >= ASP_WINDOW * 512

\* C9: every value search_internal returns is at most MATE_VALUE + 1 in
\* absolute value.
C9_ValueBounded == ret.valid => Abs(ret.val) <= MATE_VALUE + 1
\* a mate score came back through a node's move loop
C9_Witness ==
    /\ ret.valid /\ ret.path = "finalize"
    /\ Abs(ret.val) >= MATE_VALUE - U8_MAX

\* C10 as stated: with max_depth = 0 the value returned is the quiescence score
\* of the root.
C10_DepthZeroIsQsearch ==
    (phase = "done" /\ max_depth = 0) =>
        id_best_value = qsearch(prof, board, -SCORE_INF, SCORE_INF, log.nodes0, FALSE).val
\* C10 amended: with max_depth = 0 no iteration runs: search returns NULL_MOVE
\* and the value 0 and visits no node.
C10_DepthZeroIsEmpty ==
    (phase = "done" /\ max_depth = 0) =>
        /\ id_best_value = 0 /\ id_best_move = NULL_MOVE
        /\ nodes_visited = log.nodes0 /\ log.results = << >>
\* a depth-0 search ended on a root whose quiescence score is not 0
C10_Witness ==
    /\ phase = "done" /\ max_depth = 0
    /\ qsearch(prof, board, -SCORE_INF, SCORE_INF, log.nodes0, FALSE).val # 0

(***************************************************************************)
(* Properties of the tables and of the move iterator                       *)
(***************************************************************************)
\* the slot a get of hash h reads
SlotOf(h) == tt[h % tt_len(tt)]
\* C5: after any sequence of new, set and clear, get(h) returns Some(entry)
\* only if the slot at h mod capacity is occupied and entry.hash = h (and the
\* entry is the one in the slot); a slot occupied by an entry for another hash
\* yields None.
C5_GetFiltersByHash ==
    ttGot.valid =>
        /\ IsSome(ttGot.res) =>
              /\ IsSome(SlotOf(ttGot.hash))
              /\ Unwrap(ttGot.res).hash = ttGot.hash
              /\ ttGot.res = SlotOf(ttGot.hash)
        /\ (IsSome(SlotOf(ttGot.hash)) /\ Unwrap(SlotOf(ttGot.hash)).hash # ttGot.hash)
              => ttGot.res = NoneOpt
\* a get of a hash whose slot holds an entry for another hash of the same index
C5_Witness ==
    /\ ttGot.valid /\ tt_len(tt) >= 2 /\ ttGot.res = NoneOpt
    /\ IsSome(SlotOf(ttGot.hash))
    /\ Unwrap(SlotOf(ttGot.hash)).hash # ttGot.hash
    /\ Unwrap(SlotOf(ttGot.hash)).hash % tt_len(tt) = ttGot.hash % tt_len(tt)

\* C6: after any sequence of update (any depth 1..=255), normalize and clear,
\* every history entry lies in [-HISTORY_LIMIT, HISTORY_LIMIT) and no i16
\* addition and no depth*depth+depth computation has overflowed.
C6_HistoryInRange ==
    /\ \A i \in DOMAIN history :
          -HISTORY_LIMIT <= history[i] /\ history[i] < HISTORY_LIMIT
    /\ ~histOvf

\* C7: once exhausted, the iterator has yielded every legal move of the board
\* exactly once and nothing else, the TT move first when it is legal. (Stated
\* for a TT move that is absent or legal.)
C7_EachLegalMoveOnce ==
    (/\ ordPc = "exhausted"
     /\ ~IsSome(ordIn.ttmove) \/ is_legal(ordIn.board, Unwrap(ordIn.ttmove))) =>
        /\ \A k \in 1..Len(yielded) : is_legal(ordIn.board, yielded[k].mv)
        /\ \A k \in 1..Len(legal_moves(ordIn.board)) :
              Cardinality({j \in 1..Len(yielded) :
                              yielded[j].mv = legal_moves(ordIn.board)[k].mv}) = 1
        /\ IsSome(ordIn.ttmove) => yielded[1].mv = Unwrap(ordIn.ttmove)

(***************************************************************************)
(* Properties of the deadline, of mate scores and of the pruning           *)
(***************************************************************************)
\* C11: once a deadline poll of the running search has observed the deadline
\* elapsed, in search_internal or in qsearch, stop_search is true, and every
\* call that returns from then on without having searched returns 0.
C11_PollSetsStop ==
    (phase = "run" /\ timeUp) =>
        /\ stop_search
        /\ (ret.valid /\ ret.path = "stop") => ret.val = 0

\* the side to move at position p can force mate within n of its own moves
RECURSIVE MatesWithin(_, _)
MatesWithin(p, n) ==
    /\ n >= 1
    /\ \E k \in 1..Len(Game[p].moves) :
         LET c == Game[p].moves[k].dest
         IN  \/ Len(Game[c].moves) = 0 /\ Game[c].check
             \/ /\ n >= 2 /\ Len(Game[c].moves) > 0
                /\ \A j \in 1..Len(Game[c].moves) :
                      MatesWithin(Game[c].moves[j].dest, n - 1)
\* the N of a forced mate in N at p, 0 when there is none within the horizon
MateHorizon == (MaxDepth + 1) \div 2
MateIn(p) ==
    IF \E n \in 1..MateHorizon : MatesWithin(p, n)
    THEN CHOOSE n \in 1..MateHorizon :
            MatesWithin(p, n) /\ \A m \in 1..(n - 1) : ~MatesWithin(p, m)
    ELSE 0
\* a search ended with an adopted iteration deep enough for the mate of its
\* root, which is not itself a repetition draw
SeesRootMate ==
    /\ phase = "done" /\ MateIn(board.pos) >= 1
    /\ stats_depth >= 2 * MateIn(board.pos) - 1
    /\ Cardinality(EarlierOccurrences(log.prior, board)) < 2

ConvTrail(a, b) == conv.pc = "given" /\ conv.trail = <<a, b>>
\* C13: on a fixed board, for every legal move that is not a castling,
\* kxr_to_uci_move(uci_to_kxr_move(mv)) = mv and
\* uci_to_kxr_move(kxr_to_uci_move(mv)) = mv; for a castling each round trip
\* started from the notation its first translator reads gives the move back,
\* and the two translators composed in either order give the king-takes-rook
\* or the UCI form of the same castling, which plays to the same board.
C13_TranslatorsRoundTrip ==
    /\ (ConvTrail("uci_to_kxr", "kxr_to_uci") \/ ConvTrail("kxr_to_uci", "uci_to_kxr")) =>
          /\ ~is_castling(conv.legal) => conv.cur = conv.orig
          /\ conv.cur \in {conv.legal.mv, uci_of(conv.legal)}
          /\ play_unchecked(conv.board, uci_to_kxr_move(conv.board, conv.cur))
                = play(conv.board, conv.legal)
    /\ (ConvTrail("uci_to_kxr", "kxr_to_uci") /\ conv.form = "uci") => conv.cur = conv.orig
    /\ (ConvTrail("kxr_to_uci", "uci_to_kxr") /\ conv.form = "kxr") => conv.cur = conv.orig
\* a castling given in UCI form went to king-takes-rook form and back
C13_Witness ==
    /\ ConvTrail("uci_to_kxr", "kxr_to_uci") /\ conv.form = "uci"
    /\ is_castling(conv.legal) /\ conv.orig # conv.legal.mv
    /\ conv.cur = conv.orig

(***************************************************************************)
(* Further properties of the transposition table                           *)
(***************************************************************************)
\* C14: set(h, e) overwrites slot h mod capacity whatever the depth and node
\* type of the entry already there: right after it the slot holds e, get(h)
\* returns e when e.hash = h, no other hash of that slot can be retrieved, and
\* the slots at the other indices are as they were.
C14_AlwaysReplace ==
    [][ttSet'.valid =>
         LET h == ttSet'.hash
             e == ttSet'.value
             idx == h % tt_len(tt)
         IN  /\ DOMAIN tt' = DOMAIN tt
             /\ tt'[idx] = Some(e)
             /\ e.hash = h => tt_get(tt', h) = Some(e)
             /\ \A g \in TTHashes :
                   (e.hash = h /\ g # h /\ g % tt_len(tt) = idx) => tt_get(tt', g) = NoneOpt
             /\ \A i \in DOMAIN tt : i # idx => tt'[i] = tt[i]]_vars
\* a shallow exact entry has replaced a deeper lower bound of another hash in
\* a table of several slots, another of which is occupied
C14_Witness ==
    /\ ttSet.valid /\ ttSet.value.hash = ttSet.hash /\ tt_len(tt) >= 2
    /\ IsSome(ttSet.old)
    /\ Unwrap(ttSet.old).hash # ttSet.hash
    /\ Unwrap(ttSet.old).depth > ttSet.value.depth
    /\ Unwrap(ttSet.old).node_type # ttSet.value.node_type
    /\ SlotOf(ttSet.hash) = Some(ttSet.value)
    /\ \E i \in DOMAIN tt : i # ttSet.hash % tt_len(tt) /\ IsSome(tt[i])

(***************************************************************************)
(* Properties of the recursion                                             *)
(***************************************************************************)
\* the call in frame k was made by the node in frame k - 1
Calls == {k \in 1..Len(stack) : k >= 2}
\* depths and late move numbers on which the clamp of the reduction is looked at
LateDepths == LMR_MIN_DEPTH..(LMR_MIN_DEPTH + MaxDepth)
LateMoves == (LMR_LAST - MaxDepth)..LMR_LAST
\* C15: every call made from a node has that node at remaining depth d >= 1
\* and passes a depth in 0..d-1 (no u8 underflow): d-1 for the first move and
\* the full re-search, d-3 for the null-move search, d-1-reduction for the
\* null-window search, where a reduced search keeps a depth >= 1 because the
\* reduction is clamped to 0..d-2; so the calls nest at most one deeper than
\* the depth of the iteration.
C15_ChildDepthSmaller ==
    /\ \A d \in LateDepths, mn \in LateMoves :
          /\ lmr_reduction(d, mn) >= 0 /\ lmr_reduction(d, mn) <= d - 2
          /\ d - lmr_reduction(d, mn) - 1 >= 1
    /\ \A k \in Calls :
          LET d == stack[k - 1].depth
              c == stack[k]
          IN  /\ d >= 1 /\ c.depth >= 0 /\ c.depth < d
              /\ c.kind \in {"first", "re"} => c.depth = d - 1
              /\ c.kind = "nmp" => c.depth = d - NMP_REDUCTION
              /\ (c.kind = "nw" /\ c.depth # d - 1) => c.depth >= 1
    /\ phase = "run" => Len(stack) <= depth_i + 1
\* a null-window search of a late move runs at a reduced depth, and the table
\* holds a reduction the clamp cuts down
C15_Witness ==
    /\ lmr_get(LMR_MIN_DEPTH, LMR_LAST) > LMR_MIN_DEPTH - 2
    /\ \E k \in Calls :
        /\ stack[k].kind = "nw" /\ stack[k].pc = "start"
        /\ stack[k].depth < stack[k - 1].depth - 1
        /\ stack[k].depth >= 1

(***************************************************************************)
(* Properties of the pruning                                               *)
(***************************************************************************)
\* the window a call was made with is wider than a null window
PvWindow(alpha, beta) == beta > alpha + 1
Rank(b, m, killer, hist) ==
    IF m.cap THEN <<2, capture_priority(m)>>
    ELSE IF m.mv = killer THEN <<1, 0>>
    ELSE <<0, hist[history_index(b, m)]>>
RankOf(mv) ==
    LET ms == legal_moves(ordIn.board)
        k == CHOOSE k \in 1..Len(ms) : ms[k].mv = mv
    IN  Rank(ordIn.board, ms[k], ordIn.killer, ordIn.history)
\* C17: the iterator yields the TT move first and the other moves in
\* non-increasing priority: no move is yielded after a move of lower rank.
C17_YieldsByPriority ==
    \A i \in 1..Len(yielded) : \A j \in (i + 1)..Len(yielded) :
        (/\ Some(yielded[i].mv) # ordIn.ttmove /\ Some(yielded[j].mv) # ordIn.ttmove)
            => ~LexGt(RankOf(yielded[j].mv), RankOf(yielded[i].mv))

(***************************************************************************)
(* Properties of the repetition test                                       *)
(***************************************************************************)
\* the entries the test examines, numbered newest first: the even ones among
\* the most recent halfmove_count
Examined(bh, halfmove_count) ==
    {k \in 1..Len(bh) : k <= halfmove_count /\ k % 2 = 0}
Matches(bh, halfmove_count, h) ==
    {k \in Examined(bh, halfmove_count) : bh[Len(bh) + 1 - k] = h}
\* C18: is_repetition_draw(halfmove, h) is true exactly when halfmove >= 4 and
\* at least two of the examined entries (the 2nd, 4th, 6th, ... newest among
\* the most recent halfmove entries) equal h; one occurrence is not a draw and
\* older entries do not count.
C18_RepetitionDrawIff ==
    rep.tested =>
        LET n == Len(rep.bh)
            recent == SubSeq(rep.bh, n + 1 - Min(rep.halfmove_count, n), n)
            matches == Matches(rep.bh, rep.halfmove_count, rep.board_hash)
        IN  /\ rep.out <=> (rep.halfmove_count >= 4 /\ Cardinality(matches) >= 2)
            /\ Cardinality(matches) = 1 => ~rep.out
            /\ is_repetition_draw(recent, rep.halfmove_count, rep.board_hash) = rep.out
            /\ Len(recent) = rep.halfmove_count =>
                 \A older \in {<<a>> : a \in RepHashes} \cup {<<a, b>> : a, b \in RepHashes} :
                   is_repetition_draw(older \o recent, rep.halfmove_count, rep.board_hash)
                      = rep.out
\* a draw is found with exactly two examined matches, while the hash also sits
\* at an odd place and beyond the most recent halfmove entries
C18_Witness ==
    /\ rep.tested /\ rep.out
    /\ Cardinality(Matches(rep.bh, rep.halfmove_count, rep.board_hash)) = 2
    /\ Len(rep.bh) > rep.halfmove_count
    /\ rep.bh[1] = rep.board_hash
    /\ rep.bh[Len(rep.bh)] = rep.board_hash

(***************************************************************************)
(* Properties of the stored entry                                          *)
(***************************************************************************)
\* the entry of the position the last call searched
StoredEntry == tt[hash(ret.board) % tt_len(tt)]
\* a call has come back from its move loop and stored its entry
Stored == ret.valid /\ ret.path = "finalize"
\* C19 as stated: the entry a node stores after its move loop has the
\* fail-soft best_value and the type its entry window gives: UpperBound iff
\* best_value <= alpha on entry, LowerBound iff best_value > that alpha and
\* best_value >= beta on entry, Exact otherwise, whatever a TT probe narrowed.
C19_TypeFromEntryWindow ==
    Stored =>
        /\ StoredEntry = Some(TTEntry(hash(ret.board), Unwrap(StoredEntry).best_move,
                                      ret.val, ret.depth, Unwrap(StoredEntry).node_type))
        /\ Unwrap(StoredEntry).node_type =
              (IF ret.val <= ret.alpha0 THEN "UpperBound"
               ELSE IF ret.val >= ret.beta0 THEN "LowerBound"
               ELSE "Exact")
\* C19, amended: the entry has the fail-soft best_value, and its type is
\* UpperBound iff best_value <= alpha on entry, LowerBound iff best_value >
\* that alpha and best_value >= beta as the TT probe at the node left it (at
\* most the beta on entry), Exact otherwise; a probe that raises alpha does
\* not change the type.
C19_TypeFromEntryAlphaProbedBeta ==
    Stored =>
        /\ StoredEntry = Some(TTEntry(hash(ret.board), Unwrap(StoredEntry).best_move,
                                      ret.val, ret.depth, Unwrap(StoredEntry).node_type))
        /\ ret.beta1 <= ret.beta0
        /\ Unwrap(StoredEntry).node_type =
              (IF ret.val <= ret.alpha0 THEN "UpperBound"
               ELSE IF ret.val >= ret.beta1 THEN "LowerBound"
               ELSE "Exact")
\* a node whose beta an UpperBound entry lowered stores a LowerBound for a
\* value inside the window it was entered with
C19_Witness ==
    /\ Stored /\ ret.beta1 < ret.beta0
    /\ ret.alpha0 < ret.val /\ ret.beta1 <= ret.val /\ ret.val < ret.beta0
    /\ Unwrap(StoredEntry).node_type = "LowerBound"

(***************************************************************************)
(* Properties of qsearch                                                   *)
(***************************************************************************)
\* the negated values of the capture children a call searches, in order, up to
\* the child that raises alpha to beta
RECURSIVE QChildValues(_, _, _, _, _, _, _, _)
QChildValues(pf, b, caps, k, alpha, beta, nodes, time_up) ==
    IF k > Len(caps) THEN << >>
    ELSE LET r == qsearch(pf, play(b, caps[k].m), -beta, -alpha, nodes, time_up)
         IN  IF Max(alpha, -r.val) >= beta THEN <<-r.val>>
             ELSE <<-r.val>> \o QChildValues(pf, b, caps, k + 1, Max(alpha, -r.val), beta,
                                             r.nodes, time_up)
\* the children of the last qsearch call made from search_internal
QSearched ==
    LET q == log.qcall
        stand_pat == evaluate(prof, q.board)
    IN  IF stand_pat >= q.beta THEN << >>
        ELSE QChildValues(prof, q.board, with_capture_moves(q.board), 1,
                          Max(q.alpha, stand_pat), q.beta, q.nodes + 1, q.time_up)
\* the call's own deadline poll fired
QPolled == (log.qcall.nodes + 1) % POLL_EVERY = 0 /\ log.qcall.time_up
\* C20: a qsearch call whose deadline poll did not fire returns the maximum of
\* stand_pat and the negated values of the capture children it searched, not
\* clipped to alpha or beta, also when it returns alpha on a cutoff; so the
\* value is at least stand_pat. (Every call is made with alpha < beta.)
C20_QsearchFailSoft ==
    (log.qcall.valid /\ ~QPolled) =>
        LET q == log.qcall
            stand_pat == evaluate(prof, q.board)
            seen == {stand_pat} \cup {QSearched[k] : k \in 1..Len(QSearched)}
        IN  /\ q.alpha < q.beta
            /\ q.val \in seen
            /\ \A v \in seen : v <= q.val
            /\ q.val >= stand_pat
\* a call has returned from its capture loop on a cutoff at its second child,
\* with a value above beta and above stand_pat, the value of that child
C20_Witness ==
    /\ log.qcall.valid /\ ~QPolled
    /\ Len(QSearched) >= 2
    /\ log.qcall.val > log.qcall.beta
    /\ log.qcall.val > evaluate(prof, log.qcall.board)
    /\ log.qcall.val = QSearched[Len(QSearched)]

\* a step that begins a search
SearchBegins == log'.searches = log.searches + 1
\* what the Searcher holds when search_reset has run
ResetDone ==
    /\ stop_search' = FALSE /\ ply' = 0 /\ best_move' = NULL_MOVE
    /\ killers' = << >>
    /\ \A i \in DOMAIN history' : history'[i] = 0
    /\ board_history' = [k \in 1..Len(log'.prior) |-> hash(log'.prior[k])]
\* a step that takes an entry out of the table
EntryRemoved == \E i \in DOMAIN tt : IsSome(tt[i]) /\ ~IsSome(tt'[i])
\* C21: across the searches of one Searcher, the step that starts a search
\* leaves stop_search false, ply 0, best_move NULL_MOVE, killers and history
\* empty and board_history holding just the hashes of the prior positions,
\* and leaves the table as it was; the stop flag is never set unless the
\* running search's own deadline has passed, and a search whose deadline did
\* not pass completes all its max_depth iterations, whatever the search before
\* it did; only new_game removes an entry from the table, and after new_game
\* every get returns None.
C21_ResetBetweenSearches ==
    [][/\ SearchBegins => (ResetDone /\ tt' = tt)
       /\ stop_search' => timeUp'
       /\ (phase' = "done" /\ ~timeUp') => stats_depth' = max_depth'
       /\ EntryRemoved => NewGame
       /\ NewGame => \A p \in Positions : tt_get(tt', Game[p].hash) = NoneOpt]_vars
\* the second search of a Searcher, begun while the stop flag of the aborted
\* search before it was still set and over the entries that search stored, has
\* run all its iterations
C21_Witness ==
    /\ log.searches = 2 /\ log.prev_stop
    /\ phase = "done" /\ ~timeUp /\ ~stop_search
    /\ max_depth >= 3 /\ stats_depth = max_depth
    /\ nodes_visited > log.nodes0
    /\ best_move # NULL_MOVE
    /\ \E i \in DOMAIN tt : IsSome(tt[i])

\* C22: for every active search_internal call, its distance from the root
\* plus its remaining depth is at most the depth of the root call, which is at
\* most 255; ply is that distance before the call's push and one more after
\* it; the u8 ply counter always equals the number of hashes pushed, so it
\* has wrapped neither on a push nor on a pop; and every depth, the index
\* into killers, is below the 257 slots.
C22_PlyWithinDepth ==
    /\ walk.root <= U8_MAX
    /\ \A k \in 1..Len(walk.depths) :
          /\ walk.depths[k] >= 0
          /\ (k - 1) + walk.depths[k] <= walk.root
          /\ walk.depths[k] < KILLERS_LEN
    /\ walk.pc = "enter" => walk.h.ply = Len(walk.depths) - 1
    /\ walk.pc = "loop" => walk.h.ply = Len(walk.depths)
    /\ walk.h.ply = Len(walk.h.bh)
    /\ walk.h.ply <= U8_MAX
\* under a root call of depth 255, the call at distance 254 has pushed, which
\* took ply to 255, and popped again: its caller, of depth 2, is back in its
\* loop with ply 254
C22_Witness ==
    /\ walk.root = U8_MAX /\ walk.pc = "loop" /\ walk.popped
    /\ walk.h.ply = U8_MAX - 1 /\ Len(walk.h.bh) = U8_MAX - 1
    /\ WalkTop = 2

\* C23: once stop_search has been set during a search, no step of the rest of
\* that search writes the transposition table.
C23_NoStoreAfterStop == [][stop_search => tt' = tt]_vars

====
